---- MODULE Spec2Model ----
(***************************************************************************)
(* ConcussionSite: the signal-extraction and risk-scoring pipeline.        *)
(*                                                                         *)
(*   tracking/blink.py      get_adaptive_threshold, calculate_ear          *)
(*   tracking/gaze.py       get_eye_center, calculate_gaze_distance        *)
(*   main.py                run_phase (the frame loop and its summary)     *)
(*   stimulus/pursuit.py    run_dot_pursuit                                *)
(*   analysis/metrics.py    calculate_metrics                              *)
(*   analysis/risk.py       assess_concussion_risk                         *)
(*   agents/root_agent.py   RootAgent.process_message, _check_tool_calls   *)
(*   agents/runner.py       start_conversation, handle_message             *)
(*                                                                         *)
(* Number representation.  The program computes in floating point; the     *)
(* model computes in exact arithmetic:                                     *)
(*   - an eye-openness ratio (EAR) is an integer number of thousandths;    *)
(*   - a time is an integer number of clock ticks (one tick = one second   *)
(*     of time.time()), a gaze distance or a pursuit error an integer      *)
(*     number of pixels;                                                   *)
(*   - a quotient (a mean, a rate, a fraction) is the record               *)
(*     [num |-> n, den |-> d] with d > 0, compared by cross-multiplying;   *)
(*   - a standard deviation is carried by its square, the record           *)
(*     [sq |-> s, den |-> d] standing for sqrt(s) / d.                     *)
(* A division by zero, which raises ZeroDivisionError in the program, is   *)
(* the value DivError.                                                     *)
(***************************************************************************)
EXTENDS Integers, Sequences, FiniteSets, TLC

VARIABLES
    main_pc,                    \* position of main, "-" when main is not run
                                \* (or the name of the function called alone)
    pc,                         \* position of the running function
    now,                        \* time.time()
    duration_sec,               \* run_phase / run_dot_pursuit parameter
    start_time,                 \* run_phase locals (main.py 72-81)
    blink_count,
    eye_closed_time,
    gaze_distances,
    frame_count,
    last_ear_time,
    is_eye_closed,
    ear_below_threshold_count,
    ear_values,
    face_detected_count,
    current_threshold,          \* run_phase local (main.py 130)
    phase_summary,              \* the dict run_phase returns
    start,                      \* run_dot_pursuit locals (pursuit.py 17-20)
    errors,
    inside,
    total,
    baseline_metrics,           \* main locals (main.py 303-341)
    flicker_metrics,
    pursuit_metrics,
    metrics,
    symptoms,
    risk_assessment,
    eye_landmarks,              \* calculate_ear / get_eye_center argument
    ear,                        \* what calculate_ear returned
    eye_center,                 \* what get_eye_center returned
    gaze_dist,                  \* what calculate_gaze_distance returned
    root_agent,                 \* agents/runner.py globals (runner.py 26-27)
    current_email_draft,
    user_message,               \* handle_message locals (runner.py 582-587)
    result,
    outbox                      \* the emails send_email_oauth has delivered

phase_vars == <<start_time, blink_count, eye_closed_time, gaze_distances,
                frame_count, last_ear_time, is_eye_closed,
                ear_below_threshold_count, ear_values, face_detected_count,
                current_threshold, phase_summary>>

pursuit_vars == <<start, errors, inside, total>>

main_vars == <<baseline_metrics, flicker_metrics, pursuit_metrics, metrics,
               symptoms, risk_assessment>>

eye_vars == <<eye_landmarks, ear, eye_center, gaze_dist>>

runner_vars == <<root_agent, current_email_draft, user_message, result,
                 outbox>>

vars == <<main_pc, pc, now, duration_sec, phase_vars, pursuit_vars, main_vars,
          eye_vars, runner_vars>>

\* a local that is not assigned yet, and Python's None
NoValue == [none |-> TRUE]

----------------------------------------------------------------------------
(* Exact quotients *)

Rat(n, d) == [num |-> n, den |-> d]

RatLt(a, b) == a.num * b.den < b.num * a.den

RatLe(a, b) == a.num * b.den <= b.num * a.den

RatGt(a, b) == RatLt(b, a)

RatEq(a, b) == a.num * b.den = b.num * a.den

RatMax(a, b) == IF RatLt(a, b) THEN b ELSE a

RatSub(a, b) == Rat(a.num * b.den - b.num * a.den, a.den * b.den)

\* a standard deviation sqrt(s) / d, carried by s and d
Std(s, d) == [sq |-> s, den |-> d]

\* sqrt(s) / d > c, for c >= 0
StdGt(v, c) == v.sq > c * c * v.den * v.den

RECURSIVE SumSeq(_)
SumSeq(s) == IF s = <<>> THEN 0 ELSE Head(s) + SumSeq(Tail(s))

\* s[-k:] of Python: the last k elements, all of s when it is shorter
LastN(s, k) == IF Len(s) <= k THEN s ELSE SubSeq(s, Len(s) - k + 1, Len(s))

\* np.mean of a non-empty list of integers
Mean(s) == Rat(SumSeq(s), Len(s))

----------------------------------------------------------------------------
(* tracking/blink.py *)

\* EAR_BASE_THRESHOLD = 0.25, in thousandths
EAR_BASE_THRESHOLD == 250

EAR_CONSECUTIVE_FRAMES == 2

\* "if len(ear_values) > 10"
MinSamples == 10

\* "ear_values[-30:]"
WindowSize == 30

\* "Minimum 0.20", in thousandths
MinThreshold == 200

\* baseline_ear * 0.70
Scale70(m) == Rat(m.num * 7, m.den * 10)

\* the adaptive threshold without its floor
get_adaptive_threshold_NoFloor(values) ==
    IF Len(values) > MinSamples
    THEN Scale70(Mean(LastN(values, WindowSize)))
    ELSE Rat(EAR_BASE_THRESHOLD, 1)

get_adaptive_threshold(values) ==
    IF Len(values) > MinSamples
    THEN LET baseline_ear == Mean(LastN(values, WindowSize))
             adaptive_threshold == Scale70(baseline_ear)
         IN  RatMax(adaptive_threshold, Rat(MinThreshold, 1))
    ELSE Rat(EAR_BASE_THRESHOLD, 1)

----------------------------------------------------------------------------
(* main.py: run_phase *)

\* duration_sec of the phase, in ticks
PhaseTicks == 12

\* what one pass of the loop body may take up to its time.time() call, in
\* ticks
FrameDelays == {1, 3}

\* What the landmark oracle yields on a frame with a face: the two eyes'
\* EAR (thousandths) and the distance of the eye centre from the image
\* centre (pixels).  0.22 lies below the default threshold 0.25 and above
\* the floor 0.20; 0.40 lies above every threshold.
FaceFrames ==
    { [ear_left |-> 200, ear_right |-> 240, gaze_dist |-> 150],
      [ear_left |-> 400, ear_right |-> 400, gaze_dist |-> 20] }

\* avg_ear = (ear_left + ear_right) / 2.0  (the inputs have an even sum)
AvgEar(f) == (f.ear_left + f.ear_right) \div 2

PhaseInit ==
    /\ start_time = now
    /\ blink_count = 0
    /\ eye_closed_time = 0
    /\ gaze_distances = <<>>
    /\ frame_count = 0
    /\ last_ear_time = now
    /\ is_eye_closed = FALSE
    /\ ear_below_threshold_count = 0
    /\ ear_values = <<>>
    /\ face_detected_count = 0
    /\ current_threshold = NoValue
    /\ phase_summary = NoValue

\* the same assignments as a step: run_phase is entered at time t
PhaseEnter(t) ==
    /\ start_time' = t
    /\ blink_count' = 0
    /\ eye_closed_time' = 0
    /\ gaze_distances' = <<>>
    /\ frame_count' = 0
    /\ last_ear_time' = t
    /\ is_eye_closed' = FALSE
    /\ ear_below_threshold_count' = 0
    /\ ear_values' = <<>>
    /\ face_detected_count' = 0
    /\ current_threshold' = NoValue
    /\ phase_summary' = NoValue

\* "while time.time() - start_time < duration_sec"
LoopRuns == now - start_time < duration_sec

\* "if cv2.waitKey(1) & 0xFF == ord('q'): break", at the end of the body
AfterWaitKey(q) == IF q THEN "end" ELSE "loop"

\* lines 133-143: the blink state machine on one openness sample
BlinkClosesNow_NoDebounce(below, closed, cnt) == below /\ ~closed

\* a blink counted on every frame below the threshold once the run has
\* reached the required length, whether or not the eye is closed already
BlinkClosesNow_EveryClosedFrame(below, closed, cnt) ==
    below /\ cnt + 1 >= EAR_CONSECUTIVE_FRAMES

BlinkClosesNow(below, closed, cnt) ==
    below /\ ~closed /\ cnt + 1 >= EAR_CONSECUTIVE_FRAMES

\* the blink state machine that keeps the run counter when the eye reopens
BlinkStep_NoReset(avg_ear, threshold, frame_duration) ==
    LET below == RatLt(Rat(avg_ear, 1), threshold)
        closes == BlinkClosesNow(below, is_eye_closed,
                                 ear_below_threshold_count)
        closed_after == below /\ (is_eye_closed \/ closes)
    IN  /\ ear_below_threshold_count' =
              IF below THEN ear_below_threshold_count + 1
                       ELSE ear_below_threshold_count
        /\ blink_count' = IF closes THEN blink_count + 1 ELSE blink_count
        /\ is_eye_closed' = closed_after
        /\ eye_closed_time' =
              IF closed_after THEN eye_closed_time + frame_duration
                              ELSE eye_closed_time

\* the blink state machine that adds the frame duration on every sample below
\* the threshold, the first of a run included
BlinkStep_CountsFirstBelow(avg_ear, threshold, frame_duration) ==
    LET below == RatLt(Rat(avg_ear, 1), threshold)
        closes == BlinkClosesNow(below, is_eye_closed,
                                 ear_below_threshold_count)
        closed_after == below /\ (is_eye_closed \/ closes)
    IN  /\ ear_below_threshold_count' =
              IF below THEN ear_below_threshold_count + 1 ELSE 0
        /\ blink_count' = IF closes THEN blink_count + 1 ELSE blink_count
        /\ is_eye_closed' = closed_after
        /\ eye_closed_time' =
              IF below THEN eye_closed_time + frame_duration
                       ELSE eye_closed_time

BlinkStep(avg_ear, threshold, frame_duration) ==
    LET below == RatLt(Rat(avg_ear, 1), threshold)
        closes == BlinkClosesNow(below, is_eye_closed,
                                 ear_below_threshold_count)
        closed_after == below /\ (is_eye_closed \/ closes)
    IN  /\ ear_below_threshold_count' =
              IF below THEN ear_below_threshold_count + 1 ELSE 0
        /\ blink_count' = IF closes THEN blink_count + 1 ELSE blink_count
        /\ is_eye_closed' = closed_after
        /\ eye_closed_time' =
              IF closed_after THEN eye_closed_time + frame_duration
                              ELSE eye_closed_time

\* len(LEFT_EYE_INDICES) = len(RIGHT_EYE_INDICES): the points of one eye
EyeLandmarks == 16

\* get_eye_center returns a centre, and not None, for a list of n points
EyeCenterFound(n) == n # 0

\* one pass of the loop body on a frame with a face, the threshold taken
\* from the history before the sample of the frame is appended
PhaseFrameFace_ThresholdBefore ==
    /\ pc = "loop"
    /\ LoopRuns
    /\ \E d \in FrameDelays, f \in FaceFrames, q \in BOOLEAN :
          LET current_time == now + d
              frame_duration == current_time - last_ear_time
              avg_ear == AvgEar(f)
              values == Append(ear_values, avg_ear)
          IN  /\ now' = current_time
              /\ frame_count' = frame_count + 1
              /\ last_ear_time' = current_time
              /\ face_detected_count' = face_detected_count + 1
              /\ ear_values' = values
              /\ current_threshold' = get_adaptive_threshold(ear_values)
              /\ BlinkStep(avg_ear, get_adaptive_threshold(ear_values),
                           frame_duration)
              /\ gaze_distances' = Append(gaze_distances, f.gaze_dist)
              /\ pc' = AfterWaitKey(q)
    /\ UNCHANGED <<main_pc, duration_sec, start_time, phase_summary,
                   pursuit_vars, main_vars,
                   eye_vars, runner_vars>>

\* one pass of the loop body on a frame in which a face is found
PhaseFrameFace ==
    /\ pc = "loop"
    /\ LoopRuns
    /\ \E d \in FrameDelays, f \in FaceFrames, q \in BOOLEAN :
          LET current_time == now + d
              frame_duration == current_time - last_ear_time
              avg_ear == AvgEar(f)
              values == Append(ear_values, avg_ear)
          IN  /\ now' = current_time
              /\ frame_count' = frame_count + 1
              /\ last_ear_time' = current_time
              /\ face_detected_count' = face_detected_count + 1
              /\ ear_values' = values
              /\ current_threshold' = get_adaptive_threshold(values)
              /\ BlinkStep(avg_ear, get_adaptive_threshold(values),
                           frame_duration)
              /\ gaze_distances' =
                    IF /\ EyeCenterFound(EyeLandmarks)
                       /\ EyeCenterFound(EyeLandmarks)
                    THEN Append(gaze_distances, f.gaze_dist)
                    ELSE gaze_distances
              /\ pc' = AfterWaitKey(q)
    /\ UNCHANGED <<main_pc, duration_sec, start_time, phase_summary,
                   pursuit_vars, main_vars,
                   eye_vars, runner_vars>>

\* a frame without a face that records the distance 0.0
PhaseFrameNoFace_RecordsZero ==
    /\ pc = "loop"
    /\ LoopRuns
    /\ \E d \in FrameDelays, q \in BOOLEAN :
          /\ now' = now + d
          /\ frame_count' = frame_count + 1
          /\ last_ear_time' = now + d
          /\ gaze_distances' = Append(gaze_distances, 0)
          /\ pc' = AfterWaitKey(q)
    /\ UNCHANGED <<main_pc, duration_sec, start_time, blink_count,
                   eye_closed_time, is_eye_closed, ear_below_threshold_count,
                   ear_values, face_detected_count, current_threshold,
                   phase_summary, pursuit_vars, main_vars,
                   eye_vars, runner_vars>>

\* a frame without a face that ends the below-threshold run and reopens the
\* eye
PhaseFrameNoFace_ResetsRun ==
    /\ pc = "loop"
    /\ LoopRuns
    /\ \E d \in FrameDelays, q \in BOOLEAN :
          /\ now' = now + d
          /\ frame_count' = frame_count + 1
          /\ last_ear_time' = now + d
          /\ pc' = AfterWaitKey(q)
    /\ ear_below_threshold_count' = 0
    /\ is_eye_closed' = FALSE
    /\ UNCHANGED <<main_pc, duration_sec, start_time, blink_count,
                   eye_closed_time, gaze_distances, ear_values,
                   face_detected_count, current_threshold, phase_summary,
                   pursuit_vars, main_vars, eye_vars, runner_vars>>

\* one pass of the loop body on a frame without a face
PhaseFrameNoFace ==
    /\ pc = "loop"
    /\ LoopRuns
    /\ \E d \in FrameDelays, q \in BOOLEAN :
          /\ now' = now + d
          /\ frame_count' = frame_count + 1
          /\ last_ear_time' = now + d
          /\ pc' = AfterWaitKey(q)
    /\ UNCHANGED <<main_pc, duration_sec, start_time, blink_count,
                   eye_closed_time, gaze_distances,
                   is_eye_closed, ear_below_threshold_count, ear_values,
                   face_detected_count, current_threshold, phase_summary,
                   pursuit_vars, main_vars,
                   eye_vars, runner_vars>>

\* a failed read that ends the loop and discards what was accumulated
PhaseReadFails_Discards ==
    /\ pc = "loop"
    /\ LoopRuns
    /\ pc' = "end"
    /\ blink_count' = 0
    /\ eye_closed_time' = 0
    /\ gaze_distances' = <<>>
    /\ UNCHANGED <<main_pc, duration_sec, now, start_time, frame_count,
                   last_ear_time, is_eye_closed, ear_below_threshold_count,
                   ear_values, face_detected_count, current_threshold,
                   phase_summary, pursuit_vars, main_vars,
                   eye_vars, runner_vars>>

\* "ret, frame = cap.read(); if not ret: break"
PhaseReadFails ==
    /\ pc = "loop"
    /\ LoopRuns
    /\ pc' = "end"
    /\ UNCHANGED <<main_pc, duration_sec, now, phase_vars, pursuit_vars, main_vars,
                   eye_vars, runner_vars>>

\* the loop condition is false
PhaseTimeUp ==
    /\ pc = "loop"
    /\ ~LoopRuns
    /\ pc' = "end"
    /\ UNCHANGED <<main_pc, duration_sec, now, phase_vars, pursuit_vars, main_vars,
                   eye_vars, runner_vars>>

\* lines 229-251: the validation at the end of the phase
FaceDetectionRate(detected, frames) ==
    IF frames > 0 THEN Rat(detected * 100, frames) ELSE Rat(0, 1)

AvgEarValue(values) == IF values # <<>> THEN Mean(values) ELSE Rat(0, 1)

LowDetection(rate) == RatLt(rate, Rat(50, 1))

TrackingValid(rate, values) == ~LowDetection(rate) /\ Len(values) # 0

UnusualEar(avg) == RatLt(avg, Rat(100, 1)) \/ RatGt(avg, Rat(500, 1))

\* the soft warning raised below 70% of the frame count
SparseGaze_SeventyPercent(gaze, frames) == Len(gaze) * 10 < frames * 7

\* "len(gaze_distances) < frame_count * 0.3"
SparseGaze(gaze, frames) == Len(gaze) * 10 < frames * 3

\* the warnings, each stood for by a tag, in the order they are appended
ValidationWarnings(rate, values, gaze, frames) ==
       (IF LowDetection(rate) THEN <<"low_face_detection">> ELSE <<>>)
    \o (IF Len(values) = 0 THEN <<"no_ear_values">>
        ELSE IF UnusualEar(AvgEarValue(values)) THEN <<"unusual_ear_range">>
        ELSE <<>>)
    \o (IF Len(gaze) = 0 THEN <<"no_gaze">>
        ELSE IF SparseGaze(gaze, frames) THEN <<"sparse_gaze">>
        ELSE <<>>)

\* the returned dict with the elapsed time where the program puts duration_sec
PhaseSummary_ElapsedDuration ==
    LET face_detection_rate == FaceDetectionRate(face_detected_count,
                                                 frame_count)
    IN  [ blink_count |-> blink_count,
          eye_closed_time |-> eye_closed_time,
          gaze_distances |-> gaze_distances,
          duration |-> now - start_time,
          face_detection_rate |-> face_detection_rate,
          avg_ear |-> AvgEarValue(ear_values),
          tracking_valid |-> TrackingValid(face_detection_rate, ear_values),
          validation_warnings |->
              ValidationWarnings(face_detection_rate, ear_values,
                                 gaze_distances, frame_count) ]

\* the returned dict with the counters zeroed when the tracking is not valid
PhaseSummary_InvalidZeroed ==
    LET face_detection_rate == FaceDetectionRate(face_detected_count,
                                                 frame_count)
        valid == TrackingValid(face_detection_rate, ear_values)
    IN  [ blink_count |-> IF valid THEN blink_count ELSE 0,
          eye_closed_time |-> IF valid THEN eye_closed_time ELSE 0,
          gaze_distances |-> IF valid THEN gaze_distances ELSE <<>>,
          duration |-> duration_sec,
          face_detection_rate |-> face_detection_rate,
          avg_ear |-> AvgEarValue(ear_values),
          tracking_valid |-> valid,
          validation_warnings |->
              ValidationWarnings(face_detection_rate, ear_values,
                                 gaze_distances, frame_count) ]

\* lines 272-281: the returned dict
PhaseSummary ==
    LET face_detection_rate == FaceDetectionRate(face_detected_count,
                                                 frame_count)
    IN  [ blink_count |-> blink_count,
          eye_closed_time |-> eye_closed_time,
          gaze_distances |-> gaze_distances,
          duration |-> duration_sec,
          face_detection_rate |-> face_detection_rate,
          avg_ear |-> AvgEarValue(ear_values),
          tracking_valid |-> TrackingValid(face_detection_rate, ear_values),
          validation_warnings |->
              ValidationWarnings(face_detection_rate, ear_values,
                                 gaze_distances, frame_count) ]

PhaseReturn ==
    /\ pc = "end"
    /\ phase_summary' = PhaseSummary
    /\ pc' = "done"
    /\ UNCHANGED <<main_pc, duration_sec, now, start_time, blink_count, eye_closed_time,
                   gaze_distances, frame_count, last_ear_time, is_eye_closed,
                   ear_below_threshold_count, ear_values,
                   face_detected_count, current_threshold, pursuit_vars,
                   main_vars,
                   eye_vars, runner_vars>>

----------------------------------------------------------------------------
(* Spec: one run of run_phase(duration_sec = PhaseTicks) *)

\* the locals of the functions that are not running
PursuitIdle ==
    /\ start = 0
    /\ errors = <<>>
    /\ inside = 0
    /\ total = 0

MainIdle ==
    /\ baseline_metrics = NoValue
    /\ flicker_metrics = NoValue
    /\ pursuit_metrics = NoValue
    /\ metrics = NoValue
    /\ symptoms = NoValue
    /\ risk_assessment = NoValue

EyeIdle ==
    /\ eye_landmarks = <<>>
    /\ ear = NoValue
    /\ eye_center = NoValue
    /\ gaze_dist = NoValue

RunnerIdle ==
    /\ root_agent = NoValue
    /\ current_email_draft = NoValue
    /\ user_message = NoValue
    /\ result = NoValue
    /\ outbox = <<>>

Init ==
    /\ EyeIdle
    /\ RunnerIdle
    /\ main_pc = "-"
    /\ duration_sec = PhaseTicks
    /\ pc = "loop"
    /\ now = 0
    /\ PhaseInit
    /\ PursuitIdle
    /\ MainIdle

Next ==
    \/ PhaseFrameFace
    \/ PhaseFrameNoFace
    \/ PhaseReadFails
    \/ PhaseTimeUp
    \/ PhaseReturn

Spec == Init /\ [][Next]_vars

----------------------------------------------------------------------------
(* Claims about run_phase, checked under Spec *)

\* whether the i-th openness sample of a history was below the threshold in
\* force when it was classified (that of the history up to and including it)
BelowAt(values, i) ==
    RatLt(Rat(values[i], 1), get_adaptive_threshold(SubSeq(values, 1, i)))

\* for each sample of a history, whether it was below its threshold
BelowFlags(values) == [i \in 1..Len(values) |-> BelowAt(values, i)]

\* the samples at which a run of below-threshold samples reaches length 2
ClosingSamples(b) ==
    { i \in 2..Len(b) : b[i] /\ b[i - 1] /\ (i = 2 \/ ~b[i - 2]) }

C1_Counted(values, count, closed) ==
    LET b == BelowFlags(values)
        n == Len(values)
    IN  /\ count = Cardinality(ClosingSamples(b))
        /\ closed <=> (n >= 2 /\ b[n] /\ b[n - 1])

C1_Step ==
    /\ blink_count' = blink_count
                      + (IF ~is_eye_closed /\ is_eye_closed' THEN 1 ELSE 0)
    /\ (~is_eye_closed /\ is_eye_closed') =>
          Len(ear_values') \in ClosingSamples(BelowFlags(ear_values'))
    /\ C1_Counted(ear_values', blink_count', is_eye_closed')

----------------------------------------------------------------------------
(* SpecThreshold: get_adaptive_threshold applied to an openness history *)

\* the longest run of equal samples in an input history
MaxRun == 16

\* openness samples, in thousandths
EarSamples == {0, 100, 220, 290, 400, 1000}

\* k times the sample a
RECURSIVE Repeat(_, _)
Repeat(a, k) == IF k = 0 THEN <<>> ELSE <<a>> \o Repeat(a, k - 1)

\* the input histories: a run of one sample followed by a run of another
StepHistories ==
    { Repeat(a, k) \o Repeat(b, m) :
        a \in EarSamples, b \in EarSamples, k \in 0..MaxRun, m \in 0..MaxRun }

PhaseIdle ==
    /\ start_time = 0
    /\ blink_count = 0
    /\ eye_closed_time = 0
    /\ gaze_distances = <<>>
    /\ frame_count = 0
    /\ last_ear_time = 0
    /\ is_eye_closed = FALSE
    /\ ear_below_threshold_count = 0
    /\ face_detected_count = 0
    /\ phase_summary = NoValue

InitThreshold ==
    /\ EyeIdle
    /\ RunnerIdle
    /\ main_pc = "-"
    /\ duration_sec = 0
    /\ pc = "call"
    /\ now = 0
    /\ ear_values \in StepHistories
    /\ current_threshold = NoValue
    /\ PhaseIdle
    /\ PursuitIdle
    /\ MainIdle

\* current_threshold = get_adaptive_threshold(ear_values)
CallThreshold ==
    /\ pc = "call"
    /\ current_threshold' = get_adaptive_threshold(ear_values)
    /\ pc' = "done"
    /\ UNCHANGED <<main_pc, duration_sec, now, start_time, blink_count, eye_closed_time,
                   gaze_distances, frame_count, last_ear_time, is_eye_closed,
                   ear_below_threshold_count, ear_values,
                   face_detected_count, phase_summary, pursuit_vars,
                   main_vars,
                   eye_vars, runner_vars>>

NextThreshold == CallThreshold

SpecThreshold == InitThreshold /\ [][NextThreshold]_vars

\* C2: the threshold returned for any history is at least 0.20, and it is
\* exactly the default 0.25 when the history holds at most 10 samples.
C2_ThresholdFloor ==
    pc = "done" =>
        /\ current_threshold.num >= 200 * current_threshold.den
        /\ Len(ear_values) <= 10 => current_threshold = [num |-> 250, den |-> 1]

\* a history longer than the 30-sample window whose scaled mean lies below
\* the floor, so that the floor is what is returned
C2_Witness ==
    /\ pc = "done"
    /\ Len(ear_values) > 30
    /\ 7 * SumSeq(LastN(ear_values, 30)) < 200 * 10 * 30
    /\ current_threshold = [num |-> 200, den |-> 1]

----------------------------------------------------------------------------
(* analysis/risk.py: assess_concussion_risk *)

\* What a rule adds: its score and the strings it appends to risk_factors.
\* A string stands for the fixed text of the message; the numbers the
\* program formats into some of them are left out.
Adds(n, text) == [score |-> n, factors |-> <<text>>]

AddsNothing == [score |-> 0, factors |-> <<>>]

\* metrics["baseline_blink_rate"] * 1.5
Times15(r) == Rat(r.num * 3, r.den * 2)

\* the chain with the artifact test after the large-increase test
BlinkRule_ArtifactSecond(m) ==
    IF RatGt(m.flicker_blink_rate, Times15(m.baseline_blink_rate))
    THEN Adds(2, "Large blink rate increase during flicker")
    ELSE IF RatLt(m.baseline_blink_rate, Rat(5, 1))
    THEN Adds(0, "Very low baseline blink rate (possible measurement artifact).")
    ELSE IF RatGt(m.blink_rate_delta, Rat(10, 1))
    THEN Adds(1, "Moderate blink rate increase during flicker.")
    ELSE AddsNothing

\* lines 16-23
BlinkRule(m) ==
    IF RatLt(m.baseline_blink_rate, Rat(5, 1))
    THEN Adds(0, "Very low baseline blink rate (possible measurement artifact).")
    ELSE IF RatGt(m.flicker_blink_rate, Times15(m.baseline_blink_rate))
    THEN Adds(2, "Large blink rate increase during flicker")
    ELSE IF RatGt(m.blink_rate_delta, Rat(10, 1))
    THEN Adds(1, "Moderate blink rate increase during flicker.")
    ELSE AddsNothing

\* lines 26-31
EyeClosedRule(m) ==
    IF RatGt(m.eye_closed_fraction, Rat(15, 100))
    THEN Adds(2, "High eye-closure time - possible light avoidance.")
    ELSE IF RatGt(m.eye_closed_fraction, Rat(10, 100))
    THEN Adds(1, "Elevated eye-closure time during test.")
    ELSE AddsNothing

\* lines 34-39
GazeRule(m) ==
    IF RatGt(m.gaze_off_fraction, Rat(50, 100))
    THEN Adds(2, "Frequent gaze aversion - often looking away from stimulus.")
    ELSE IF RatGt(m.gaze_off_fraction, Rat(30, 100))
    THEN Adds(1, "Moderate gaze aversion detected.")
    ELSE AddsNothing

\* lines 42-48
PursuitWindowRule(p) ==
    IF p = NoValue THEN AddsNothing
    ELSE IF RatLt(p.sp_percent, Rat(6, 10))
    THEN Adds(2, "Poor smooth pursuit")
    ELSE IF RatLt(p.sp_percent, Rat(75, 100))
    THEN Adds(1, "Borderline smooth pursuit tracking")
    ELSE AddsNothing

\* the variance check chained to the window check by "elif"
PursuitVarianceRule_Elif(p) ==
    IF p = NoValue \/ RatLt(p.sp_percent, Rat(75, 100)) THEN AddsNothing
    ELSE IF StdGt(p.variance, 150)
    THEN Adds(1, "High pursuit error variance")
    ELSE AddsNothing

\* lines 42, 50-52
PursuitVarianceRule(p) ==
    IF p = NoValue THEN AddsNothing
    ELSE IF StdGt(p.variance, 150)
    THEN Adds(1, "High pursuit error variance")
    ELSE AddsNothing

\* lines 55-60: sum() of the four booleans
SymptomCount(sy) ==
      (IF sy.headache THEN 1 ELSE 0) + (IF sy.nausea THEN 1 ELSE 0)
    + (IF sy.dizziness THEN 1 ELSE 0) + (IF sy.light_sensitivity THEN 1 ELSE 0)

\* "symptom_count == 3" in place of ">= 3"
SymptomRule_Eq3(sy) ==
    LET symptom_count == SymptomCount(sy)
    IN  IF symptom_count = 3
        THEN Adds(3, "Multiple symptoms reported")
        ELSE IF symptom_count = 2
        THEN Adds(2, "Some concussion-like symptoms reported.")
        ELSE IF symptom_count = 1
        THEN Adds(1, "One concussion-like symptom reported.")
        ELSE AddsNothing

\* one point for every symptom reported
SymptomRule_PerSymptom(sy) ==
    LET symptom_count == SymptomCount(sy)
    IN  IF symptom_count >= 3
        THEN Adds(symptom_count, "Multiple symptoms reported")
        ELSE IF symptom_count = 2
        THEN Adds(2, "Some concussion-like symptoms reported.")
        ELSE IF symptom_count = 1
        THEN Adds(1, "One concussion-like symptom reported.")
        ELSE AddsNothing

\* lines 62-70
SymptomRule(sy) ==
    LET symptom_count == SymptomCount(sy)
    IN  IF symptom_count >= 3
        THEN Adds(3, "Multiple symptoms reported")
        ELSE IF symptom_count = 2
        THEN Adds(2, "Some concussion-like symptoms reported.")
        ELSE IF symptom_count = 1
        THEN Adds(1, "One concussion-like symptom reported.")
        ELSE AddsNothing

\* the rules in the order the function runs them
RiskRules(m, sy, p) ==
    << BlinkRule(m), EyeClosedRule(m), GazeRule(m), PursuitWindowRule(p),
       PursuitVarianceRule(p), SymptomRule(sy) >>

RECURSIVE TotalScore(_)
TotalScore(rules) ==
    IF rules = <<>> THEN 0 ELSE Head(rules).score + TotalScore(Tail(rules))

\* risk_factors.insert(0, ...) in place of append
RECURSIVE AllFactors_Prepend(_)
AllFactors_Prepend(rules) ==
    IF rules = <<>> THEN <<>>
    ELSE AllFactors_Prepend(Tail(rules)) \o Head(rules).factors

RECURSIVE AllFactors(_)
AllFactors(rules) ==
    IF rules = <<>> THEN <<>>
    ELSE Head(rules).factors \o AllFactors(Tail(rules))

RecHigh ==
    "URGENT: Consult a healthcare professional as soon as possible. Several objective signs AND symptoms suggest possible concussion-related issues."

RecModerate ==
    "RECOMMENDED: Seek medical evaluation. There are meaningful indicators of light sensitivity and/or oculomotor dysfunction that could be concussion-related."

RecLow ==
    "MONITOR: Mild indicators present. Monitor symptoms over time and seek care if they persist or worsen."

RecMinimal ==
    "No strong indicators detected in this screening. This does NOT rule out concussion; monitor how you feel and seek care if concerned."

\* "risk_score > 7" in place of ">= 7"
RiskLevel_Gt7(risk_score) ==
    IF risk_score > 7 THEN [risk_level |-> "HIGH", recommendation |-> RecHigh]
    ELSE IF risk_score >= 4
    THEN [risk_level |-> "MODERATE", recommendation |-> RecModerate]
    ELSE IF risk_score >= 2
    THEN [risk_level |-> "LOW", recommendation |-> RecLow]
    ELSE [risk_level |-> "MINIMAL", recommendation |-> RecMinimal]

\* lines 73-87
RiskLevel(risk_score) ==
    IF risk_score >= 7 THEN [risk_level |-> "HIGH", recommendation |-> RecHigh]
    ELSE IF risk_score >= 4
    THEN [risk_level |-> "MODERATE", recommendation |-> RecModerate]
    ELSE IF risk_score >= 2
    THEN [risk_level |-> "LOW", recommendation |-> RecLow]
    ELSE [risk_level |-> "MINIMAL", recommendation |-> RecMinimal]

assess_concussion_risk(m, sy, p) ==
    LET rules == RiskRules(m, sy, p)
        risk_score == TotalScore(rules)
        level == RiskLevel(risk_score)
    IN  [ risk_level |-> level.risk_level,
          risk_score |-> risk_score,
          risk_factors |-> AllFactors(rules),
          recommendation |-> level.recommendation ]

----------------------------------------------------------------------------
(* SpecRisk: assess_concussion_risk applied to its inputs *)

\* baseline and flicker blink rates (blinks/min); the delta is their
\* difference, as calculate_metrics computes it
BlinkRates ==
    { <<Rat(16, 1), Rat(15, 1)>>, <<Rat(16, 1), Rat(24, 1)>>,
      <<Rat(16, 1), Rat(26, 1)>>, <<Rat(4, 1), Rat(26, 1)>>,
      <<Rat(4, 1), Rat(4, 1)>>,   <<Rat(0, 1), Rat(0, 1)>>,
      <<Rat(5, 1), Rat(15, 2)>>,  <<Rat(5, 1), Rat(8, 1)>>,
      <<Rat(30, 1), Rat(40, 1)>>, <<Rat(30, 1), Rat(41, 1)>>,
      <<Rat(30, 1), Rat(46, 1)>>, <<Rat(45, 2), Rat(20, 1)>> }

EyeClosedFractions == { Rat(5, 100), Rat(10, 100), Rat(12, 100),
                        Rat(15, 100), Rat(20, 100) }

GazeOffFractions == { Rat(10, 100), Rat(30, 100), Rat(40, 100),
                      Rat(50, 100), Rat(55, 100) }

MetricsInputs ==
    { [ baseline_blink_rate |-> r[1],
        flicker_blink_rate |-> r[2],
        blink_rate_delta |-> RatSub(r[2], r[1]),
        eye_closed_fraction |-> c,
        gaze_off_fraction |-> g ] :
      r \in BlinkRates, c \in EyeClosedFractions, g \in GazeOffFractions }

SymptomInputs ==
    [ headache : BOOLEAN, nausea : BOOLEAN, dizziness : BOOLEAN,
      light_sensitivity : BOOLEAN ]

InWindowFractions == { Rat(0, 1), Rat(1, 2), Rat(6, 10), Rat(7, 10),
                       Rat(75, 100), Rat(1, 1) }

ErrorStds == { Std(0, 1), Std(150 * 150, 1), Std(160 * 160, 1),
               Std(999 * 999, 1) }

PursuitInputs ==
    { NoValue } \cup
    { [ variance |-> v, sp_percent |-> w,
        mean_error |-> IF v = Std(999 * 999, 1) THEN Rat(999, 1)
                       ELSE Rat(100, 1),
        num_frames |-> 20 ] :
      v \in ErrorStds, w \in InWindowFractions }

InitRisk ==
    /\ EyeIdle
    /\ RunnerIdle
    /\ main_pc = "-"
    /\ duration_sec = 0
    /\ pc = "call"
    /\ now = 0
    /\ metrics \in MetricsInputs
    /\ symptoms \in SymptomInputs
    /\ pursuit_metrics \in PursuitInputs
    /\ baseline_metrics = NoValue
    /\ flicker_metrics = NoValue
    /\ risk_assessment = NoValue
    /\ ear_values = <<>>
    /\ current_threshold = NoValue
    /\ PhaseIdle
    /\ PursuitIdle

\* risk_assessment = assess_concussion_risk(metrics, symptoms, pursuit_metrics)
CallRisk ==
    /\ pc = "call"
    /\ risk_assessment' =
           assess_concussion_risk(metrics, symptoms, pursuit_metrics)
    /\ pc' = "done"
    /\ UNCHANGED <<main_pc, duration_sec, now, phase_vars, pursuit_vars, baseline_metrics,
                   flicker_metrics, pursuit_metrics, metrics, symptoms,
                   eye_vars, runner_vars>>

NextRisk == CallRisk

SpecRisk == InitRisk /\ [][NextRisk]_vars

----------------------------------------------------------------------------
(* Claims about assess_concussion_risk, checked under SpecRisk *)

\* The contributions as the specification states them, on the inputs of the
\* call.  A quotient n/d exceeds a/b when n * b > a * d.
Said_Closed(m) ==
    LET f == m.eye_closed_fraction
    IN  IF f.num * 100 > 15 * f.den THEN 2
        ELSE IF f.num * 100 > 10 * f.den THEN 1 ELSE 0

Said_Gaze(m) ==
    LET f == m.gaze_off_fraction
    IN  IF f.num * 100 > 50 * f.den THEN 2
        ELSE IF f.num * 100 > 30 * f.den THEN 1 ELSE 0

Said_Window(p) ==
    IF p = NoValue THEN 0
    ELSE IF p.sp_percent.num * 100 < 60 * p.sp_percent.den THEN 2
    ELSE IF p.sp_percent.num * 100 < 75 * p.sp_percent.den THEN 1 ELSE 0

Said_Variance(p) ==
    IF p = NoValue THEN 0
    ELSE IF p.variance.sq > 22500 * p.variance.den * p.variance.den THEN 1
    ELSE 0

Said_Symptoms(sy) ==
    LET n == Cardinality({ k \in DOMAIN sy : sy[k] })
    IN  IF n >= 3 THEN 3 ELSE n

Said_Artifact(m) == m.baseline_blink_rate.num < 5 * m.baseline_blink_rate.den

Said_LargeIncrease(m) ==
    LET b == m.baseline_blink_rate
        f == m.flicker_blink_rate
    IN  2 * f.num * b.den > 3 * b.num * f.den

Said_DeltaOver10(m) == m.blink_rate_delta.num > 10 * m.blink_rate_delta.den

Said_Blink(m) ==
    IF Said_Artifact(m) THEN 0
    ELSE IF Said_LargeIncrease(m) THEN 2
    ELSE IF Said_DeltaOver10(m) THEN 1 ELSE 0

Said_Others(m, sy, p) ==
    Said_Closed(m) + Said_Gaze(m) + Said_Window(p) + Said_Variance(p)
    + Said_Symptoms(sy)

\* C3: the score is the sum of the blink contribution (0, 1 or 2) and the
\* stated contributions of eye-closed fraction, gaze-off fraction, pursuit
\* (window and variance, only with a summary) and symptoms; with nothing
\* crossed, no pursuit summary and no symptom it is 0 and MINIMAL, with every
\* factor at its worst it is 12 and HIGH.
C3_ScoreIsSum ==
    pc = "done" =>
        LET r == risk_assessment
            others == Said_Others(metrics, symptoms, pursuit_metrics)
        IN  /\ r.risk_score - others \in {0, 1, 2}
            /\ ( /\ ~Said_LargeIncrease(metrics)
                 /\ ~Said_DeltaOver10(metrics)
                 /\ others = 0
                 /\ pursuit_metrics = NoValue )
               => (r.risk_score = 0 /\ r.risk_level = "MINIMAL")
            /\ ( /\ ~Said_Artifact(metrics)
                 /\ Said_LargeIncrease(metrics)
                 /\ others = 10 )
               => (r.risk_score = 12 /\ r.risk_level = "HIGH")

\* the scenario of the specification: baseline 16, flicker 26, closed 0.20,
\* gaze 0.55, in-window 0.5, error_std 160, three symptoms: 12, HIGH
C3_Witness ==
    /\ pc = "done"
    /\ metrics = [ baseline_blink_rate |-> Rat(16, 1),
                   flicker_blink_rate |-> Rat(26, 1),
                   blink_rate_delta |-> Rat(10, 1),
                   eye_closed_fraction |-> Rat(20, 100),
                   gaze_off_fraction |-> Rat(55, 100) ]
    /\ pursuit_metrics # NoValue
    /\ pursuit_metrics.sp_percent = Rat(1, 2)
    /\ pursuit_metrics.variance = Std(160 * 160, 1)
    /\ Cardinality({ k \in DOMAIN symptoms : symptoms[k] }) = 3
    /\ risk_assessment.risk_score = 12
    /\ risk_assessment.risk_level = "HIGH"

\* C4: the level is HIGH from 7, MODERATE for 4..6, LOW for 2..3 and MINIMAL
\* for 0..1, and the recommendation is the text of that level.
C4_LevelOfScore ==
    pc = "done" =>
        LET r == risk_assessment
            n == r.risk_score
        IN  /\ r.risk_level \in {"HIGH", "MODERATE", "LOW", "MINIMAL"}
            /\ n >= 7 <=> r.risk_level = "HIGH"
            /\ n \in 4..6 <=> r.risk_level = "MODERATE"
            /\ n \in 2..3 <=> r.risk_level = "LOW"
            /\ n \in 0..1 <=> r.risk_level = "MINIMAL"
            /\ r.risk_level = "HIGH" =>
                 r.recommendation = "URGENT: Consult a healthcare professional as soon as possible. Several objective signs AND symptoms suggest possible concussion-related issues."
            /\ r.risk_level = "MODERATE" =>
                 r.recommendation = "RECOMMENDED: Seek medical evaluation. There are meaningful indicators of light sensitivity and/or oculomotor dysfunction that could be concussion-related."
            /\ r.risk_level = "LOW" =>
                 r.recommendation = "MONITOR: Mild indicators present. Monitor symptoms over time and seek care if they persist or worsen."
            /\ r.risk_level = "MINIMAL" =>
                 r.recommendation = "No strong indicators detected in this screening. This does NOT rule out concussion; monitor how you feel and seek care if concerned."

\* a score of exactly 7, the lowest that is HIGH
C4_Witness ==
    /\ pc = "done"
    /\ risk_assessment.risk_score = 7
    /\ risk_assessment.risk_level = "HIGH"

BlinkTexts ==
    { "Very low baseline blink rate (possible measurement artifact).",
      "Large blink rate increase during flicker",
      "Moderate blink rate increase during flicker." }

\* C5: the blink rule is one chain: a baseline rate below 5 flags the
\* artifact and adds 0 whatever the flicker rate and the delta are; otherwise
\* a flicker rate above 1.5 times the baseline adds 2; otherwise a delta above
\* 10 adds 1; at most one of the three branches leaves a string.
C5_BlinkChain ==
    pc = "done" =>
        LET r == risk_assessment
            blink == r.risk_score
                     - Said_Others(metrics, symptoms, pursuit_metrics)
            texts == { i \in DOMAIN r.risk_factors :
                         r.risk_factors[i] \in BlinkTexts }
        IN  /\ blink = Said_Blink(metrics)
            /\ Cardinality(texts) <= 1
            /\ Said_Artifact(metrics) <=>
                 ( /\ r.risk_factors # <<>>
                   /\ r.risk_factors[1] =
                        "Very low baseline blink rate (possible measurement artifact)." )

\* a baseline rate of 4 with a flicker rate of 26 (above 1.5 times the
\* baseline, delta 22): the artifact is flagged and nothing is added
C5_Witness ==
    /\ pc = "done"
    /\ metrics.baseline_blink_rate = Rat(4, 1)
    /\ metrics.flicker_blink_rate = Rat(26, 1)
    /\ Said_LargeIncrease(metrics)
    /\ Said_DeltaOver10(metrics)
    /\ risk_assessment.risk_score
         = Said_Others(metrics, symptoms, pursuit_metrics)
    /\ risk_assessment.risk_factors[1] =
         "Very low baseline blink rate (possible measurement artifact)."

\* the score of the call with some of its inputs replaced
ScoreOf(m, sy, p) == assess_concussion_risk(m, sy, p).risk_score

BlinkDeltas == { Rat(0 - 1, 1), Rat(5, 2), Rat(10, 1), Rat(11, 1), Rat(22, 1) }

FlickerRates == { r[2] : r \in BlinkRates }

\* C6: the score does not go down when one input gets worse and the others
\* stay as they are: a larger blink delta (the delta alone, or the flicker
\* rate with the delta following it), a larger eye-closed fraction, a larger
\* gaze-off fraction, more symptoms, a lower in-window fraction, a larger
\* pursuit error_std.
C6_Monotone ==
    pc = "done" =>
        LET n == risk_assessment.risk_score
            m == metrics
            sy == symptoms
            p == pursuit_metrics
        IN  /\ \A d \in BlinkDeltas :
                 RatLe(m.blink_rate_delta, d) =>
                     ScoreOf([m EXCEPT !.blink_rate_delta = d], sy, p) >= n
            /\ \A f \in FlickerRates :
                 RatLe(m.flicker_blink_rate, f) =>
                     ScoreOf([m EXCEPT !.flicker_blink_rate = f,
                                       !.blink_rate_delta =
                                           RatSub(f, m.baseline_blink_rate)],
                             sy, p) >= n
            /\ \A c \in EyeClosedFractions :
                 RatLe(m.eye_closed_fraction, c) =>
                     ScoreOf([m EXCEPT !.eye_closed_fraction = c], sy, p) >= n
            /\ \A g \in GazeOffFractions :
                 RatLe(m.gaze_off_fraction, g) =>
                     ScoreOf([m EXCEPT !.gaze_off_fraction = g], sy, p) >= n
            /\ \A sy2 \in SymptomInputs :
                 (\A k \in DOMAIN sy : sy[k] => sy2[k]) =>
                     ScoreOf(m, sy2, p) >= n
            /\ p # NoValue =>
                 /\ \A w \in InWindowFractions :
                      RatLe(w, p.sp_percent) =>
                          ScoreOf(m, sy, [p EXCEPT !.sp_percent = w]) >= n
                 /\ \A v \in ErrorStds :
                      v.sq * p.variance.den * p.variance.den
                          >= p.variance.sq * v.den * v.den =>
                          ScoreOf(m, sy, [p EXCEPT !.variance = v]) >= n

\* a call whose every input can still get worse and whose score is not yet
\* the highest: three symptoms (a fourth can be added), a blink delta of 10
C6_Witness ==
    /\ pc = "done"
    /\ Cardinality({ k \in DOMAIN symptoms : symptoms[k] }) = 3
    /\ metrics.blink_rate_delta = Rat(10, 1)
    /\ metrics.eye_closed_fraction = Rat(10, 100)
    /\ metrics.gaze_off_fraction = Rat(30, 100)
    /\ pursuit_metrics # NoValue
    /\ pursuit_metrics.sp_percent = Rat(75, 100)
    /\ pursuit_metrics.variance = Std(150 * 150, 1)
    /\ risk_assessment.risk_score = 3

\* the rule a string of risk_factors belongs to, by its place in the order
\* of evaluation
RuleOfText(t) ==
    CASE t \in BlinkTexts -> 1
      [] t \in { "High eye-closure time - possible light avoidance.",
                 "Elevated eye-closure time during test." } -> 2
      [] t \in { "Frequent gaze aversion - often looking away from stimulus.",
                 "Moderate gaze aversion detected." } -> 3
      [] t \in { "Poor smooth pursuit",
                 "Borderline smooth pursuit tracking" } -> 4
      [] t = "High pursuit error variance" -> 5
      [] t \in { "Multiple symptoms reported",
                 "Some concussion-like symptoms reported.",
                 "One concussion-like symptom reported." } -> 6

\* C7: risk_factors holds exactly one string for each rule that took a
\* branch, in the order blink, eye-closed, gaze, pursuit window, pursuit
\* variance, symptoms; so a score above 0 comes with a non-empty list, and the
\* list has at most 6 entries.
C7_FactorsInOrder ==
    pc = "done" =>
        LET r == risk_assessment
            f == r.risk_factors
            m == metrics
            p == pursuit_metrics
            fired ==
                   (IF Said_Artifact(m) \/ Said_Blink(m) > 0 THEN {1} ELSE {})
              \cup (IF Said_Closed(m) > 0 THEN {2} ELSE {})
              \cup (IF Said_Gaze(m) > 0 THEN {3} ELSE {})
              \cup (IF Said_Window(p) > 0 THEN {4} ELSE {})
              \cup (IF Said_Variance(p) > 0 THEN {5} ELSE {})
              \cup (IF Said_Symptoms(symptoms) > 0 THEN {6} ELSE {})
        IN  /\ \A i \in 1..(Len(f) - 1) : RuleOfText(f[i]) < RuleOfText(f[i + 1])
            /\ { RuleOfText(f[i]) : i \in DOMAIN f } = fired
            /\ r.risk_score > 0 => f # <<>>
            /\ Len(f) <= 6

\* all six rules took a branch, with a final level that is not HIGH: the
\* artifact flag on the blink rule keeps the score at 6
C7_Witness ==
    /\ pc = "done"
    /\ Len(risk_assessment.risk_factors) = 6
    /\ risk_assessment.risk_level = "MODERATE"

----------------------------------------------------------------------------
(* stimulus/pursuit.py: run_dot_pursuit *)

\* duration_sec of the pursuit phase, in ticks
PursuitTicks == 5

\* "if err < 80"
PursuitTolerance == 80

\* The distance, in pixels, between the gaze estimate and the dot on a frame
\* with a gaze estimate.  The program takes the norm of an integer offset;
\* the inputs are offsets whose norm is an integer.
PursuitErrors == {0, 79, 80, 500}

RECURSIVE SumSquares(_)
SumSquares(s) ==
    IF s = <<>> THEN 0 ELSE Head(s) * Head(s) + SumSquares(Tail(s))

\* np.std of a non-empty list: sqrt(n * sum(x^2) - sum(x)^2) / n
StdDev(s) ==
    Std(Len(s) * SumSquares(s) - SumSeq(s) * SumSeq(s), Len(s))

\* the sentinel 999.0
PursuitSentinel == 999

PursuitInit ==
    /\ start = now
    /\ errors = <<>>
    /\ inside = 0
    /\ total = 0
    /\ pursuit_metrics = NoValue

\* "while time.time() - start < duration_sec"
PursuitRuns == now - start < duration_sec

\* a frame on which estimate_gaze_point returns a gaze point
PursuitFrameGaze ==
    /\ pc = "loop"
    /\ PursuitRuns
    /\ \E d \in FrameDelays, err \in PursuitErrors, q \in BOOLEAN :
          /\ now' = now + d
          /\ errors' = Append(errors, err)
          /\ inside' = IF err < PursuitTolerance THEN inside + 1 ELSE inside
          /\ total' = total + 1
          /\ pc' = AfterWaitKey(q)
    /\ UNCHANGED <<main_pc, duration_sec, start, phase_vars, main_vars,
                   eye_vars, runner_vars>>

\* a frame without a gaze estimate that is left out of the sample count
PursuitFrameNoGaze_NotCounted ==
    /\ pc = "loop"
    /\ PursuitRuns
    /\ \E d \in FrameDelays, q \in BOOLEAN :
          /\ now' = now + d
          /\ pc' = AfterWaitKey(q)
    /\ UNCHANGED <<main_pc, duration_sec, start, errors, inside, total,
                   phase_vars, main_vars,
                   eye_vars, runner_vars>>

\* a frame on which estimate_gaze_point returns None
PursuitFrameNoGaze ==
    /\ pc = "loop"
    /\ PursuitRuns
    /\ \E d \in FrameDelays, q \in BOOLEAN :
          /\ now' = now + d
          /\ total' = total + 1
          /\ pc' = AfterWaitKey(q)
    /\ UNCHANGED <<main_pc, duration_sec, start, errors, inside, phase_vars, main_vars,
                   eye_vars, runner_vars>>

\* "ret, frame = cap.read(); if not ret: break"
PursuitReadFails ==
    /\ pc = "loop"
    /\ PursuitRuns
    /\ pc' = "end"
    /\ UNCHANGED <<main_pc, duration_sec, now, pursuit_vars, phase_vars, main_vars,
                   eye_vars, runner_vars>>

\* the loop condition is false
PursuitTimeUp ==
    /\ pc = "loop"
    /\ ~PursuitRuns
    /\ pc' = "end"
    /\ UNCHANGED <<main_pc, duration_sec, now, pursuit_vars, phase_vars, main_vars,
                   eye_vars, runner_vars>>

\* the returned dict with 0.0 where the program puts the sentinel
PursuitSummary_ZeroDefault ==
    [ variance |-> IF errors # <<>> THEN StdDev(errors) ELSE Std(0, 1),
      sp_percent |-> IF total > 0 THEN Rat(inside, total) ELSE Rat(0, 1),
      mean_error |-> IF errors # <<>> THEN Mean(errors) ELSE Rat(0, 1),
      num_frames |-> total ]

\* sp_percent with the error samples as its denominator
PursuitSummary_OverDetected ==
    [ variance |-> IF errors # <<>> THEN StdDev(errors)
                   ELSE Std(PursuitSentinel * PursuitSentinel, 1),
      sp_percent |-> IF Len(errors) > 0 THEN Rat(inside, Len(errors))
                     ELSE Rat(1, 1),
      mean_error |-> IF errors # <<>> THEN Mean(errors)
                     ELSE Rat(PursuitSentinel, 1),
      num_frames |-> total ]

\* lines 62-77
PursuitSummary ==
    [ variance |-> IF errors # <<>> THEN StdDev(errors)
                   ELSE Std(PursuitSentinel * PursuitSentinel, 1),
      sp_percent |-> IF total > 0 THEN Rat(inside, total) ELSE Rat(0, 1),
      mean_error |-> IF errors # <<>> THEN Mean(errors)
                     ELSE Rat(PursuitSentinel, 1),
      num_frames |-> total ]

PursuitReturn ==
    /\ pc = "end"
    /\ pursuit_metrics' = PursuitSummary
    /\ pc' = "done"
    /\ UNCHANGED <<main_pc, duration_sec, now, pursuit_vars, phase_vars, baseline_metrics,
                   flicker_metrics, metrics, symptoms, risk_assessment,
                   eye_vars, runner_vars>>

----------------------------------------------------------------------------
(* SpecPursuit: one run of run_dot_pursuit(duration_sec = PursuitTicks) *)

InitPursuit ==
    /\ EyeIdle
    /\ RunnerIdle
    /\ main_pc = "-"
    /\ duration_sec = PursuitTicks
    /\ pc = "loop"
    /\ now = 0
    /\ PursuitInit
    /\ baseline_metrics = NoValue
    /\ flicker_metrics = NoValue
    /\ metrics = NoValue
    /\ symptoms = NoValue
    /\ risk_assessment = NoValue
    /\ ear_values = <<>>
    /\ current_threshold = NoValue
    /\ PhaseIdle

NextPursuit ==
    \/ PursuitFrameGaze
    \/ PursuitFrameNoGaze
    \/ PursuitReadFails
    \/ PursuitTimeUp
    \/ PursuitReturn

SpecPursuit == InitPursuit /\ [][NextPursuit]_vars

----------------------------------------------------------------------------
(* Claims about run_dot_pursuit, checked under SpecPursuit *)

\* sp_percent lies in [0, 1], and is 0 when no error sample is within 80 px
C9_InRange ==
    LET w == pursuit_metrics.sp_percent
    IN  /\ 0 <= w.num /\ w.num <= w.den
        /\ (\A i \in DOMAIN errors : errors[i] >= 80) => w.num = 0

\* every frame read had a gaze estimate within 80 px of the dot
C9_AllWithin ==
    /\ Len(errors) = total
    /\ \A i \in DOMAIN errors : errors[i] < 80

\* C9 as stated: in_window_fraction lies in [0, 1], is 0 when no sample is
\* within 80 px of the target, and is 1.0 when every detected-face frame is
\* within tolerance and no frame is undetected.
C9_AsStated ==
    pc = "done" =>
        /\ C9_InRange
        /\ C9_AllWithin =>
             pursuit_metrics.sp_percent.num = pursuit_metrics.sp_percent.den

\* C9 as amended: in_window_fraction lies in [0, 1], is 0 when no sample is
\* within 80 px of the target, and is 1.0 when at least one frame was read,
\* every detected-face frame is within tolerance and no frame is undetected;
\* a run that read no frame returns 0.0.
C9_InWindowFraction ==
    pc = "done" =>
        /\ C9_InRange
        /\ (total > 0 /\ C9_AllWithin) =>
             pursuit_metrics.sp_percent.num = pursuit_metrics.sp_percent.den
        /\ total = 0 => pursuit_metrics.sp_percent.num = 0

\* three frames read, each within tolerance: the fraction is 3/3
C9_Witness ==
    /\ pc = "done"
    /\ total = 3
    /\ C9_AllWithin
    /\ pursuit_metrics.sp_percent = [num |-> 3, den |-> 3]

\* metrics that cross no threshold, to which the pursuit summary is added
QuietMetrics ==
    [ baseline_blink_rate |-> Rat(16, 1),
      flicker_blink_rate |-> Rat(15, 1),
      blink_rate_delta |-> Rat(0 - 1, 1),
      eye_closed_fraction |-> Rat(5, 100),
      gaze_off_fraction |-> Rat(10, 100) ]

\* C10: a run that collects no error sample (the run that reads no frame
\* included) returns mean_error = 999 and error_std = 999, and with that
\* summary assess_concussion_risk adds the highest pursuit contribution, 2 for
\* the window check and 1 for the variance check.
C10_SentinelOnNoSamples ==
    (pc = "done" /\ errors = <<>>) =>
        /\ pursuit_metrics.mean_error = [num |-> 999, den |-> 1]
        /\ pursuit_metrics.variance = [sq |-> 999 * 999, den |-> 1]
        /\ PursuitWindowRule(pursuit_metrics).score = 2
        /\ PursuitVarianceRule(pursuit_metrics).score = 1
        /\ \A sy \in SymptomInputs :
             ScoreOf(QuietMetrics, sy, pursuit_metrics)
                 = ScoreOf(QuietMetrics, sy, NoValue) + 3

\* two frames read, neither with a gaze estimate
C10_Witness ==
    /\ pc = "done"
    /\ errors = <<>>
    /\ total = 2
    /\ pursuit_metrics.mean_error = [num |-> 999, den |-> 1]

----------------------------------------------------------------------------
(* analysis/metrics.py: calculate_metrics *)

\* the ZeroDivisionError that leaves calculate_metrics without a result
DivError == [error |-> "ZeroDivisionError"]

\* the blink rate per second, without the factor 60
BlinkRate_PerSecond(summary) == Rat(summary.blink_count, summary.duration)

\* (blink_count / duration) * 60, for a duration that is not 0
BlinkRate(summary) == Rat(summary.blink_count * 60, summary.duration)

\* lines 15-17
EyeClosedFraction(b, f) ==
    LET total_closed_time == b.eye_closed_time + f.eye_closed_time
        total_duration == b.duration + f.duration
    IN  IF total_duration > 0 THEN Rat(total_closed_time, total_duration)
        ELSE Rat(0, 1)

\* "gaze_threshold = max(gaze_threshold, 100.0)" and the default 100.0
GazeFloor == 100

\* the threshold taken from the gaze distances of both phases together
GazeThreshold_Pooled(b, f) ==
    LET pooled == b.gaze_distances \o f.gaze_distances
    IN  IF Len(pooled) > 0
        THEN [mean |-> Mean(pooled), std |-> StdDev(pooled),
              floor |-> GazeFloor]
        ELSE [mean |-> Rat(0, 1), std |-> Std(0, 1), floor |-> GazeFloor]

\* lines 20-26: the gaze_threshold of calculate_metrics(b, f),
\* max(mean + 2 * std, 100.0) of the baseline distances, carried by its
\* parts; mean and std have the same denominator, the sample count
GazeThreshold(b, f) ==
    LET base == b.gaze_distances
    IN  IF Len(base) > 0
        THEN [mean |-> Mean(base), std |-> StdDev(base), floor |-> GazeFloor]
        ELSE [mean |-> Rat(0, 1), std |-> Std(0, 1), floor |-> GazeFloor]

\* d > mean + 2 * std:  with mean = s/n and std = sqrt(v)/n this is
\* n*d - s > 2 * sqrt(v), that is n*d - s > 0 and (n*d - s)^2 > 4 * v
ExceedsMeanPlus2Std(d, th) ==
    LET lhs == th.mean.den * d - th.mean.num
    IN  lhs > 0 /\ lhs * lhs > 4 * th.std.sq

\* "d >= gaze_threshold": a sample on the threshold counted as off
GazeOff_AtOrAbove(d, th) ==
    LET lhs == th.mean.den * d - th.mean.num
    IN  d >= th.floor /\ lhs >= 0 /\ lhs * lhs >= 4 * th.std.sq

\* "d > gaze_threshold"
GazeOff(d, th) == d > th.floor /\ ExceedsMeanPlus2Std(d, th)

\* "sum(1 for d in ... if d > gaze_threshold)"
CountOff(dists, th) ==
    Cardinality({ i \in DOMAIN dists : GazeOff(dists[i], th) })

\* lines 28-31
GazeOffFraction(b, f) ==
    LET th == GazeThreshold(b, f)
        baseline_gaze_off == CountOff(b.gaze_distances, th)
        flicker_gaze_off == CountOff(f.gaze_distances, th)
        total_gaze_measurements ==
            Len(b.gaze_distances) + Len(f.gaze_distances)
    IN  IF total_gaze_measurements > 0
        THEN Rat(baseline_gaze_off + flicker_gaze_off,
                 total_gaze_measurements)
        ELSE Rat(0, 1)

calculate_metrics(b, f) ==
    IF b.duration = 0 \/ f.duration = 0 THEN DivError
    ELSE [ baseline_blink_rate |-> BlinkRate(b),
           flicker_blink_rate |-> BlinkRate(f),
           blink_rate_delta |-> RatSub(BlinkRate(f), BlinkRate(b)),
           eye_closed_fraction |-> EyeClosedFraction(b, f),
           gaze_off_fraction |-> GazeOffFraction(b, f) ]

----------------------------------------------------------------------------
(* SpecMetrics: calculate_metrics applied to the summaries of two runs of   *)
(* run_phase, the baseline run and then the flicker run                     *)

\* duration_sec of the two runs, in ticks
ShortTicks == 4

\* the durations a run is given: none at all, or ShortTicks
PhaseDurations == {0, ShortTicks}

\* "time.sleep(2)" between the phases
SleepTicks == 2

InitMetrics ==
    /\ EyeIdle
    /\ RunnerIdle
    /\ main_pc = "baseline"
    /\ pc = "loop"
    /\ now = 0
    /\ duration_sec \in PhaseDurations
    /\ PhaseInit
    /\ PursuitIdle
    /\ MainIdle

\* baseline_metrics = run_phase(...) has returned; run_phase is entered again
\* for the flicker phase (its lines 72-81)
StartFlicker ==
    /\ main_pc = "baseline"
    /\ pc = "done"
    /\ baseline_metrics' = phase_summary
    /\ main_pc' = "flicker"
    /\ pc' = "loop"
    /\ duration_sec' \in PhaseDurations
    /\ now' = now + SleepTicks
    /\ PhaseEnter(now + SleepTicks)
    /\ UNCHANGED <<pursuit_vars, flicker_metrics, pursuit_metrics, metrics,
                   symptoms, risk_assessment,
                   eye_vars, runner_vars>>

\* flicker_metrics = run_phase(...) has returned
FlickerReturns ==
    /\ main_pc = "flicker"
    /\ pc = "done"
    /\ flicker_metrics' = phase_summary
    /\ main_pc' = "metrics"
    /\ UNCHANGED <<pc, now, duration_sec, phase_vars, pursuit_vars,
                   baseline_metrics, pursuit_metrics, metrics, symptoms,
                   risk_assessment,
                   eye_vars, runner_vars>>

\* metrics = calculate_metrics(baseline_metrics, flicker_metrics)
CallMetrics ==
    /\ main_pc = "metrics"
    /\ metrics' = calculate_metrics(baseline_metrics, flicker_metrics)
    /\ main_pc' = "end"
    /\ UNCHANGED <<pc, now, duration_sec, phase_vars, pursuit_vars,
                   baseline_metrics, flicker_metrics, pursuit_metrics,
                   symptoms, risk_assessment,
                   eye_vars, runner_vars>>

NextMetrics ==
    \/ PhaseFrameFace
    \/ PhaseFrameNoFace
    \/ PhaseReadFails
    \/ PhaseTimeUp
    \/ PhaseReturn
    \/ StartFlicker
    \/ FlickerReturns
    \/ CallMetrics

SpecMetrics == InitMetrics /\ [][NextMetrics]_vars

----------------------------------------------------------------------------
(* Claims about calculate_metrics, checked under SpecMetrics *)

\* C8: for summaries with non-negative blink counts, closed-eye times,
\* durations and gaze distances, the eye_closed_fraction and the
\* gaze_off_fraction that calculate_metrics returns both lie in [0, 1].
C8_FractionsInUnitInterval ==
    (main_pc = "end" /\ metrics # DivError) =>
        /\ 0 <= metrics.eye_closed_fraction.num
        /\ metrics.eye_closed_fraction.num <= metrics.eye_closed_fraction.den
        /\ 0 <= metrics.gaze_off_fraction.num
        /\ metrics.gaze_off_fraction.num <= metrics.gaze_off_fraction.den

\* the half of C8 that the program keeps: the gaze_off_fraction lies in [0, 1]
C8_GazeFractionInUnitInterval ==
    (main_pc = "end" /\ metrics # DivError) =>
        /\ 0 <= metrics.gaze_off_fraction.num
        /\ metrics.gaze_off_fraction.num <= metrics.gaze_off_fraction.den

\* the summary of a phase whose first cap.read() failed: the loop was entered,
\* so the duration is positive, and nothing was accumulated
EmptySummary(s) ==
    /\ s.duration > 0
    /\ s.blink_count = 0
    /\ s.eye_closed_time = 0
    /\ s.gaze_distances = <<>>

\* C11: a phase whose first camera read fails processes no frame and still
\* returns a summary with the configured duration, blink_count = 0,
\* eye_closed_time = 0 and gaze_distances = []; calculate_metrics applied to
\* two such summaries returns blink rates, eye_closed_fraction and
\* gaze_off_fraction equal to 0, with no division error.
C11_ZeroFramePhase ==
    /\ (pc = "done" /\ frame_count = 0 /\ duration_sec > 0) =>
          /\ phase_summary.duration = duration_sec
          /\ EmptySummary(phase_summary)
    /\ (main_pc = "end" /\ EmptySummary(baseline_metrics)
                        /\ EmptySummary(flicker_metrics)) =>
          /\ metrics # DivError
          /\ metrics.baseline_blink_rate.num = 0
          /\ metrics.flicker_blink_rate.num = 0
          /\ metrics.blink_rate_delta.num = 0
          /\ metrics.eye_closed_fraction.num = 0
          /\ metrics.gaze_off_fraction.num = 0

\* both phases lost the camera at their first read: no time passed but the
\* sleep between them
C11_Witness ==
    /\ main_pc = "end"
    /\ now = SleepTicks
    /\ frame_count = 0
    /\ baseline_metrics.duration = ShortTicks
    /\ flicker_metrics.duration = ShortTicks
    /\ EmptySummary(baseline_metrics)
    /\ EmptySummary(flicker_metrics)
    /\ metrics.eye_closed_fraction = [num |-> 0, den |-> 2 * ShortTicks]

\* C12: for any pair of phase summaries, those with a duration of 0 included,
\* calculate_metrics returns numbers and raises no division error, and the
\* eye_closed_fraction is 0 when the total duration is 0.
C12_NoDivisionError ==
    main_pc = "end" =>
        /\ metrics # DivError
        /\ (baseline_metrics.duration + flicker_metrics.duration = 0) =>
              metrics.eye_closed_fraction.num = 0

\* the quotient q is the number n / d
IsQuotient(q, n, d) == q.den # 0 /\ q.num * d = n * q.den

\* C13: calculate_metrics returns, for each phase, the blink rate
\* blink_count / duration * 60, and as blink_rate_delta the flicker rate minus
\* the baseline rate; a phase with duration > 0 and blink_count = 0 has blink
\* rate 0.
C13_BlinkRates ==
    (main_pc = "end" /\ metrics # DivError) =>
        LET b == baseline_metrics
            f == flicker_metrics
        IN  /\ IsQuotient(metrics.baseline_blink_rate,
                          b.blink_count * 60, b.duration)
            /\ IsQuotient(metrics.flicker_blink_rate,
                          f.blink_count * 60, f.duration)
            /\ IsQuotient(metrics.blink_rate_delta,
                          f.blink_count * 60 * b.duration
                              - b.blink_count * 60 * f.duration,
                          f.duration * b.duration)
            /\ b.blink_count = 0 => metrics.baseline_blink_rate.num = 0
            /\ f.blink_count = 0 => metrics.flicker_blink_rate.num = 0

\* one blink in the baseline phase and none in the flicker phase: the rates
\* are 60 / ShortTicks and 0, the delta is negative
C13_Witness ==
    /\ main_pc = "end"
    /\ metrics # DivError
    /\ baseline_metrics.blink_count = 1
    /\ flicker_metrics.blink_count = 0
    /\ metrics.baseline_blink_rate = [num |-> 60, den |-> ShortTicks]
    /\ metrics.flicker_blink_rate.num = 0
    /\ metrics.blink_rate_delta.num < 0

----------------------------------------------------------------------------
(* SpecAggregate: calculate_metrics as a function of two phase summaries    *)

\* the longest gaze_distances list of an input summary
MaxGaze == 3

\* gaze distances in pixels: below the floor 100.0, on it, and above it
GazeSamples == {20, 100, 200, 250}

\* the lists of at most n elements of S
SeqsUpTo(S, n) == UNION { [1..k -> S] : k \in 0..n }

\* an input summary, with the keys calculate_metrics reads
SummaryOf(blinks, closed, duration, gaze) ==
    [ blink_count |-> blinks,
      eye_closed_time |-> closed,
      duration |-> duration,
      gaze_distances |-> gaze ]

\* the summaries of the 8 s baseline phase and of the 15 s flicker phase
BaselineInputs ==
    { SummaryOf(2, 1, 8, g) : g \in SeqsUpTo(GazeSamples, MaxGaze) }

FlickerInputs ==
    { SummaryOf(5, 3, 15, g) : g \in SeqsUpTo(GazeSamples, MaxGaze) }

InitAggregate ==
    /\ EyeIdle
    /\ RunnerIdle
    /\ main_pc = "metrics"
    /\ pc = "done"
    /\ now = 0
    /\ duration_sec = 0
    /\ baseline_metrics \in BaselineInputs
    /\ flicker_metrics \in FlickerInputs
    /\ pursuit_metrics = NoValue
    /\ metrics = NoValue
    /\ symptoms = NoValue
    /\ risk_assessment = NoValue
    /\ ear_values = <<>>
    /\ current_threshold = NoValue
    /\ PhaseIdle
    /\ PursuitIdle

NextAggregate == CallMetrics

SpecAggregate == InitAggregate /\ [][NextAggregate]_vars

----------------------------------------------------------------------------
(* Claims about the gaze threshold, checked under SpecAggregate *)

RECURSIVE SumSquaredDeviations(_, _, _)
\* the sum of (n * x - s)^2 over the elements x of the list
SumSquaredDeviations(list, n, s) ==
    IF list = <<>> THEN 0
    ELSE (n * Head(list) - s) * (n * Head(list) - s)
             + SumSquaredDeviations(Tail(list), n, s)

\* d > mean + 2 * stddev of a non-empty list, from the definitions
\* mean = s / n and stddev^2 = sum((x - mean)^2) / n:
\* n * d - s > 0 and n * (n * d - s)^2 > 4 * sum((n * x - s)^2)
AboveMeanPlusTwoStd(d, list) ==
    LET n == Len(list)
        s == SumSeq(list)
    IN  /\ n * d - s > 0
        /\ n * (n * d - s) * (n * d - s)
               > 4 * SumSquaredDeviations(list, n, s)

\* d > max(100.0, mean + 2 * stddev of the list), 100.0 for the empty list
AboveStatedThreshold(d, list) ==
    /\ d > 100
    /\ list # <<>> => AboveMeanPlusTwoStd(d, list)

\* flicker gaze lists a second call is given
OtherFlickerGaze == SeqsUpTo(GazeSamples, 2)

\* C14: the gaze threshold calculate_metrics uses is
\* max(100.0, mean + 2 * stddev of the baseline gaze distances), 100.0 for a
\* baseline without gaze samples; it is never below 100.0, and a call that
\* differs only in the flicker gaze distances classifies every baseline
\* sample the same way.
C14_BaselineThreshold ==
    main_pc = "end" =>
        LET b == baseline_metrics
            f == flicker_metrics
            th == GazeThreshold(b, f)
        IN  /\ \A d \in GazeSamples :
                  GazeOff(d, th) <=> AboveStatedThreshold(d, b.gaze_distances)
            /\ \A d \in GazeSamples : d <= 100 => ~GazeOff(d, th)
            /\ \A g \in OtherFlickerGaze :
                  LET th2 == GazeThreshold(b, [f EXCEPT !.gaze_distances = g])
                  IN  \A i \in DOMAIN b.gaze_distances :
                          GazeOff(b.gaze_distances[i], th2)
                              <=> GazeOff(b.gaze_distances[i], th)

\* baseline distances 20 and 100 give the threshold 60 + 2 * 40 = 140; the
\* flicker sample 200 lies above it and is the one sample of three counted
C14_Witness ==
    /\ main_pc = "end"
    /\ baseline_metrics.gaze_distances = <<20, 100>>
    /\ flicker_metrics.gaze_distances = <<200>>
    /\ GazeOff(200, GazeThreshold(baseline_metrics, flicker_metrics))
    /\ ~GazeOff(100, GazeThreshold(baseline_metrics, flicker_metrics))
    /\ metrics.gaze_off_fraction = [num |-> 1, den |-> 3]

\* the number of samples of the list above the threshold of the baseline list
CountAboveStated(list, base) ==
    Cardinality({ i \in DOMAIN list : AboveStatedThreshold(list[i], base) })

\* d = max(100.0, mean + 2 * stddev of the list), 100.0 for the empty list
OnStatedThreshold(d, list) ==
    LET n == Len(list)
        s == SumSeq(list)
        onSum == /\ n * d - s >= 0
                 /\ n * (n * d - s) * (n * d - s)
                        = 4 * SumSquaredDeviations(list, n, s)
    IN  IF list = <<>> THEN d = 100
        ELSE \/ d = 100 /\ ~AboveMeanPlusTwoStd(100, list)
             \/ d >= 100 /\ onSum

\* C15: gaze_off_fraction is the number of baseline and flicker gaze samples
\* strictly greater than the threshold divided by the number of gaze samples
\* of both phases, and 0 when neither phase has a sample; a sample equal to
\* the threshold is not counted as off.
C15_GazeOffFraction ==
    main_pc = "end" =>
        LET bg == baseline_metrics.gaze_distances
            fg == flicker_metrics.gaze_distances
            all == bg \o fg
        IN  /\ Len(all) > 0 =>
                  IsQuotient(metrics.gaze_off_fraction,
                             CountAboveStated(bg, bg)
                                 + CountAboveStated(fg, bg),
                             Len(all))
            /\ Len(all) = 0 => metrics.gaze_off_fraction.num = 0
            /\ (\A i \in DOMAIN all : OnStatedThreshold(all[i], bg)) =>
                  metrics.gaze_off_fraction.num = 0

\* baseline distances 100 and 200 give the threshold 150 + 2 * 50 = 250; of
\* the flicker samples 250 and 250 neither is counted
C15_Witness ==
    /\ main_pc = "end"
    /\ baseline_metrics.gaze_distances = <<100, 200>>
    /\ flicker_metrics.gaze_distances = <<250, 250>>
    /\ OnStatedThreshold(250, baseline_metrics.gaze_distances)
    /\ metrics.gaze_off_fraction = [num |-> 0, den |-> 4]

----------------------------------------------------------------------------
(* The reopening of the eye in run_phase, checked under Spec *)

\* the step processes a frame with a face: one openness sample is appended
C16_Sampled == Len(ear_values') = Len(ear_values) + 1

\* the sample of the step meets or exceeds the threshold of the step
C16_MeetsThreshold ==
    ~RatLt(Rat(ear_values'[Len(ear_values')], 1), current_threshold')

C16_Step ==
    /\ (C16_Sampled /\ is_eye_closed /\ C16_MeetsThreshold) =>
          /\ ~is_eye_closed'
          /\ ear_below_threshold_count' = 0
          /\ blink_count' = blink_count
          /\ eye_closed_time' = eye_closed_time
    /\ (C16_Sampled /\ ~is_eye_closed /\ ear_below_threshold_count = 0) =>
          /\ ~is_eye_closed'
          /\ blink_count' = blink_count

\* C16: while the eye is closed, the first frame whose averaged openness
\* meets or exceeds the current threshold reopens it at once, with no
\* consecutive-frame requirement, and resets the below-threshold run counter
\* to 0; one below-threshold frame after that does not count a blink, the
\* next blink needs 2 consecutive ones again.
C16_ReopenAtOnce == [][C16_Step]_vars

\* a blink, one open frame, one frame below the threshold: the eye is open,
\* the run counter is 1 and no second blink is counted
C16_Witness ==
    /\ ear_values = <<220, 220, 400, 220>>
    /\ blink_count = 1
    /\ ~is_eye_closed
    /\ ear_below_threshold_count = 1

----------------------------------------------------------------------------
(* The sample counts of run_dot_pursuit, checked under SpecPursuit *)

\* at most one error sample per frame, and in-window samples are error samples
C17_Counts ==
    /\ inside <= Len(errors)
    /\ Len(errors) <= total
    /\ inside <= total
    /\ inside = Cardinality({ i \in DOMAIN errors : errors[i] < 80 })

\* the returned figures: the fraction over all frames, the mean and the
\* standard deviation over the error samples
C17_Summary ==
    pc = "done" =>
        LET n == Len(errors)
            s == SumSeq(errors)
            v == pursuit_metrics.variance
        IN  /\ pursuit_metrics.num_frames = total
            /\ total > 0 =>
                  IsQuotient(pursuit_metrics.sp_percent, inside, total)
            /\ n > 0 =>
                  /\ IsQuotient(pursuit_metrics.mean_error, s, n)
                  /\ v.sq * n * n * n
                         = SumSquaredDeviations(errors, n, s) * v.den * v.den

\* a pass of the loop body reads a frame: the clock advances
C17_Step ==
    IF pc = "loop" /\ now' > now
    THEN /\ total' = total + 1
         /\ \/ errors' = errors
            \/ \E err \in PursuitErrors : errors' = Append(errors, err)
    ELSE total' = total /\ errors' = errors

\* C17: in run_dot_pursuit every frame read increments the total sample
\* count and only a frame with a gaze estimate adds an error sample; the
\* number of error samples and the in-window count never exceed the total,
\* in_window_fraction is taken over all frames, mean_error and error_std over
\* the frames with a gaze estimate only.
C17_SampleCounts == [](C17_Counts /\ C17_Summary) /\ [][C17_Step]_vars

\* three frames read, one of them with a gaze estimate, which is in the window
C17_Witness ==
    /\ pc = "done"
    /\ total = 3
    /\ errors = <<79>>
    /\ inside = 1
    /\ pursuit_metrics.sp_percent = [num |-> 1, den |-> 3]
    /\ pursuit_metrics.mean_error = [num |-> 79, den |-> 1]

----------------------------------------------------------------------------
(* main.py: main, the three phases in sequence and the scoring *)

\* duration_sec of the baseline, flicker and pursuit phases, in ticks (main
\* passes 8, 15 and 12 seconds)
BaselineTicks == 2

FlickerTicks == 2

TrackTicks == 2

\* the locals of run_phase once it has returned
PhaseLeave ==
    /\ start_time' = 0
    /\ blink_count' = 0
    /\ eye_closed_time' = 0
    /\ gaze_distances' = <<>>
    /\ frame_count' = 0
    /\ last_ear_time' = 0
    /\ is_eye_closed' = FALSE
    /\ ear_below_threshold_count' = 0
    /\ ear_values' = <<>>
    /\ face_detected_count' = 0
    /\ current_threshold' = NoValue
    /\ phase_summary' = NoValue

\* the locals of run_dot_pursuit once it has returned
PursuitLeave ==
    /\ start' = 0
    /\ errors' = <<>>
    /\ inside' = 0
    /\ total' = 0

InitMain ==
    /\ EyeIdle
    /\ RunnerIdle
    /\ main_pc = "start"
    /\ pc = "done"
    /\ now = 0
    /\ duration_sec = 0
    /\ ear_values = <<>>
    /\ current_threshold = NoValue
    /\ PhaseIdle
    /\ PursuitIdle
    /\ MainIdle

\* "if not cap.isOpened(): return"
MainNoCamera ==
    /\ main_pc = "start"
    /\ main_pc' = "end"
    /\ UNCHANGED <<pc, now, duration_sec, phase_vars, pursuit_vars, main_vars,
                   eye_vars, runner_vars>>

\* run_phase(..., "Baseline", duration_sec=8, ...) is entered
MainStartBaseline ==
    /\ main_pc = "start"
    /\ main_pc' = "baseline"
    /\ pc' = "loop"
    /\ duration_sec' = BaselineTicks
    /\ PhaseEnter(now)
    /\ UNCHANGED <<now, pursuit_vars, main_vars,
                   eye_vars, runner_vars>>

\* a step of run_phase, in the baseline or in the flicker phase
MainPhaseStep ==
    /\ main_pc \in {"baseline", "flicker"}
    /\ \/ PhaseFrameFace
       \/ PhaseFrameNoFace
       \/ PhaseReadFails
       \/ PhaseTimeUp
       \/ PhaseReturn

\* the baseline run returns into baseline_metrics; after time.sleep(2)
\* run_phase(..., "Flicker", duration_sec=15, ...) is entered
MainStartFlicker ==
    /\ main_pc = "baseline"
    /\ pc = "done"
    /\ baseline_metrics' = phase_summary
    /\ main_pc' = "flicker"
    /\ pc' = "loop"
    /\ duration_sec' = FlickerTicks
    /\ now' = now + SleepTicks
    /\ PhaseEnter(now + SleepTicks)
    /\ UNCHANGED <<pursuit_vars, flicker_metrics, pursuit_metrics, metrics,
                   symptoms, risk_assessment,
                   eye_vars, runner_vars>>

\* the return of the flicker run stored in both summaries
MainStartPursuit_Overwrites ==
    /\ main_pc = "flicker"
    /\ pc = "done"
    /\ flicker_metrics' = phase_summary
    /\ baseline_metrics' = phase_summary
    /\ main_pc' = "pursuit"
    /\ pc' = "loop"
    /\ duration_sec' = TrackTicks
    /\ now' = now + SleepTicks
    /\ PhaseLeave
    /\ start' = now + SleepTicks
    /\ errors' = <<>>
    /\ inside' = 0
    /\ total' = 0
    /\ UNCHANGED <<pursuit_metrics, metrics, symptoms, risk_assessment,
                   eye_vars, runner_vars>>

\* the flicker run returns into flicker_metrics; after time.sleep(2)
\* run_dot_pursuit(duration_sec=12, ...) is entered
MainStartPursuit ==
    /\ main_pc = "flicker"
    /\ pc = "done"
    /\ flicker_metrics' = phase_summary
    /\ main_pc' = "pursuit"
    /\ pc' = "loop"
    /\ duration_sec' = TrackTicks
    /\ now' = now + SleepTicks
    /\ PhaseLeave
    /\ start' = now + SleepTicks
    /\ errors' = <<>>
    /\ inside' = 0
    /\ total' = 0
    /\ UNCHANGED <<baseline_metrics, pursuit_metrics, metrics, symptoms,
                   risk_assessment,
                   eye_vars, runner_vars>>

\* a step of run_dot_pursuit
MainPursuitStep ==
    /\ main_pc = "pursuit"
    /\ \/ PursuitFrameGaze
       \/ PursuitFrameNoGaze
       \/ PursuitReadFails
       \/ PursuitTimeUp
       \/ PursuitReturn

\* the pursuit run has returned into pursuit_metrics;
\* metrics = calculate_metrics(baseline_metrics, flicker_metrics)
MainCallMetrics ==
    /\ main_pc = "pursuit"
    /\ pc = "done"
    /\ metrics' = calculate_metrics(baseline_metrics, flicker_metrics)
    /\ main_pc' = "symptoms"
    /\ PursuitLeave
    /\ UNCHANGED <<pc, now, duration_sec, phase_vars, baseline_metrics,
                   flicker_metrics, pursuit_metrics, symptoms,
                   risk_assessment,
                   eye_vars, runner_vars>>

\* what the user answers to the four questions: no to all, yes to the
\* headache only, yes to all
MainAnswers ==
    { [headache |-> h, nausea |-> o, dizziness |-> o, light_sensitivity |-> o] :
        h \in BOOLEAN, o \in BOOLEAN } \ 
    { [headache |-> FALSE, nausea |-> TRUE, dizziness |-> TRUE,
       light_sensitivity |-> TRUE] }

\* symptoms = ask_symptoms()
MainAskSymptoms ==
    /\ main_pc = "symptoms"
    /\ symptoms' \in MainAnswers
    /\ main_pc' = "risk"
    /\ UNCHANGED <<pc, now, duration_sec, phase_vars, pursuit_vars,
                   baseline_metrics, flicker_metrics, pursuit_metrics,
                   metrics, risk_assessment,
                   eye_vars, runner_vars>>

\* risk_assessment = assess_concussion_risk(metrics, symptoms, pursuit_metrics)
MainAssess ==
    /\ main_pc = "risk"
    /\ risk_assessment' =
           assess_concussion_risk(metrics, symptoms, pursuit_metrics)
    /\ main_pc' = "end"
    /\ UNCHANGED <<pc, now, duration_sec, phase_vars, pursuit_vars,
                   baseline_metrics, flicker_metrics, pursuit_metrics,
                   metrics, symptoms,
                   eye_vars, runner_vars>>

\* the steps main takes without waiting for the keyboard
MainRuns ==
    \/ MainNoCamera
    \/ MainStartBaseline
    \/ MainPhaseStep
    \/ MainStartFlicker
    \/ MainStartPursuit
    \/ MainPursuitStep
    \/ MainCallMetrics
    \/ MainAssess

NextMain == MainRuns \/ MainAskSymptoms

SpecMain == InitMain /\ [][NextMain]_vars


----------------------------------------------------------------------------
(* SpecLoops: one frame loop, run_phase(duration_sec = LoopTicks) or         *)
(* run_dot_pursuit(duration_sec = PursuitTicks), called alone and scheduled  *)
(* fairly                                                                    *)

\* duration_sec of the run_phase call, in ticks
LoopTicks == 8

InitLoops ==
    /\ EyeIdle
    /\ RunnerIdle
    /\ pc = "loop"
    /\ now = 0
    /\ MainIdle
    /\ \/ /\ main_pc = "run_phase"
          /\ duration_sec = LoopTicks
          /\ PhaseInit
          /\ PursuitIdle
       \/ /\ main_pc = "run_dot_pursuit"
          /\ duration_sec = PursuitTicks
          /\ PursuitInit
          /\ ear_values = <<>>
          /\ current_threshold = NoValue
          /\ PhaseIdle

LoopsPhaseStep ==
    /\ main_pc = "run_phase"
    /\ \/ PhaseFrameFace
       \/ PhaseFrameNoFace
       \/ PhaseReadFails
       \/ PhaseTimeUp
       \/ PhaseReturn

LoopsPursuitStep ==
    /\ main_pc = "run_dot_pursuit"
    /\ \/ PursuitFrameGaze
       \/ PursuitFrameNoGaze
       \/ PursuitReadFails
       \/ PursuitTimeUp
       \/ PursuitReturn

NextLoops == LoopsPhaseStep \/ LoopsPursuitStep

\* the function keeps running: cap.read() returns, and every pass of the
\* loop body advances time.time()
SpecLoops == InitLoops /\ [][NextLoops]_vars /\ WF_vars(NextLoops)

----------------------------------------------------------------------------
(* The end of a frame loop, checked under SpecLoops *)

\* what the frames processed so far have accumulated
C18_Accumulated ==
    <<blink_count, eye_closed_time, gaze_distances, frame_count, ear_values,
      face_detected_count, errors, inside, total>>

\* the summary is complete and is made of the accumulated values; the summary
\* of run_phase carries the configured duration
C18_Summary ==
    pc = "done" =>
        IF main_pc = "run_phase"
        THEN /\ DOMAIN phase_summary =
                   {"blink_count", "eye_closed_time", "gaze_distances",
                    "duration", "face_detection_rate", "avg_ear",
                    "tracking_valid", "validation_warnings"}
             /\ phase_summary.duration = duration_sec
             /\ phase_summary.blink_count = blink_count
             /\ phase_summary.eye_closed_time = eye_closed_time
             /\ phase_summary.gaze_distances = gaze_distances
             /\ frame_count > 0 =>
                   IsQuotient(phase_summary.face_detection_rate,
                              face_detected_count * 100, frame_count)
             /\ ear_values # <<>> =>
                   IsQuotient(phase_summary.avg_ear, SumSeq(ear_values),
                              Len(ear_values))
        ELSE /\ DOMAIN pursuit_metrics =
                   {"variance", "sp_percent", "mean_error", "num_frames"}
             /\ pursuit_metrics.num_frames = total
             /\ total > 0 =>
                   IsQuotient(pursuit_metrics.sp_percent, inside, total)
             /\ errors # <<>> =>
                   IsQuotient(pursuit_metrics.mean_error, SumSeq(errors),
                              Len(errors))

\* a read that fails (the clock has not advanced) ends the loop and leaves
\* what was accumulated as it is; once the loop is left no frame is
\* processed, the next step is the return
C18_Step ==
    /\ (pc = "loop" /\ now' = now) =>
          pc' = "end" /\ C18_Accumulated' = C18_Accumulated
    /\ pc = "end" =>
          pc' = "done" /\ now' = now /\ C18_Accumulated' = C18_Accumulated
    /\ pc = "done" => UNCHANGED vars

----------------------------------------------------------------------------
(* The order of the phases in main, checked under SpecMain *)

Exists(v) == v # NoValue

\* no frame of run_phase has been processed, or its locals are gone
C19_PhaseQuiet == frame_count = 0 /\ ear_values = <<>> /\ ~Exists(phase_summary)

\* no frame of run_dot_pursuit has been processed, or its locals are gone
C19_PursuitQuiet == total = 0 /\ errors = <<>>

\* one phase at a time, in the order baseline, flicker, pursuit
C19_PhaseOrder ==
    /\ main_pc = "baseline" =>
          /\ ~Exists(baseline_metrics) /\ ~Exists(flicker_metrics)
          /\ ~Exists(pursuit_metrics) /\ C19_PursuitQuiet
    /\ main_pc = "flicker" =>
          /\ Exists(baseline_metrics) /\ ~Exists(flicker_metrics)
          /\ ~Exists(pursuit_metrics) /\ C19_PursuitQuiet
    /\ main_pc = "pursuit" =>
          /\ Exists(baseline_metrics) /\ Exists(flicker_metrics)
          /\ C19_PhaseQuiet
    /\ Exists(flicker_metrics) => Exists(baseline_metrics)
    /\ Exists(pursuit_metrics) => Exists(flicker_metrics)

C19_AllSummaries ==
    /\ Exists(baseline_metrics)
    /\ Exists(flicker_metrics)
    /\ Exists(pursuit_metrics)

\* a summary that exists stays as it is, and the symptoms are asked once
C19_Step ==
    /\ Exists(baseline_metrics) => baseline_metrics' = baseline_metrics
    /\ Exists(flicker_metrics) => flicker_metrics' = flicker_metrics
    /\ Exists(pursuit_metrics) => pursuit_metrics' = pursuit_metrics
    /\ Exists(symptoms) => symptoms' = symptoms

\* C19 as stated: the phases run one at a time in the order baseline,
\* flicker, pursuit, each returning its summary before the next starts;
\* calculate_metrics and assess_concussion_risk run only after all three
\* summaries exist and the symptoms have been collected once; a summary is
\* not modified after its phase has ended.
C19_AsStated ==
    /\ [](/\ C19_PhaseOrder
          /\ Exists(metrics) => C19_AllSummaries /\ Exists(symptoms)
          /\ Exists(risk_assessment) => C19_AllSummaries /\ Exists(symptoms))
    /\ [][C19_Step]_vars

\* C19 as amended: the phases run one at a time in the order baseline,
\* flicker, pursuit, each returning its summary before the next starts;
\* calculate_metrics runs only after all three summaries exist, and
\* assess_concussion_risk only after calculate_metrics has returned and the
\* symptoms have been collected once; a summary is not modified after its
\* phase has ended.
C19_PhasesInOrder ==
    /\ [](/\ C19_PhaseOrder
          /\ Exists(metrics) => C19_AllSummaries
          /\ Exists(symptoms) => Exists(metrics)
          /\ Exists(risk_assessment) =>
                C19_AllSummaries /\ Exists(metrics) /\ Exists(symptoms))
    /\ [][C19_Step]_vars

\* main has run to its end with a blink in the baseline phase: the three
\* summaries, the metrics, the symptoms and the assessment exist
C19_Witness ==
    /\ main_pc = "end"
    /\ C19_AllSummaries
    /\ baseline_metrics.blink_count = 1
    /\ pursuit_metrics.num_frames = 2
    /\ Exists(metrics)
    /\ Exists(symptoms)
    /\ Exists(risk_assessment)

----------------------------------------------------------------------------
(* The gaze samples of run_phase, checked under Spec *)

C20_Counts ==
    /\ Len(gaze_distances) = face_detected_count
    /\ face_detected_count <= frame_count

\* a frame with a face appends one gaze offset, any other step none
C20_Step ==
    /\ face_detected_count' = face_detected_count + 1 =>
          /\ Len(gaze_distances') = Len(gaze_distances) + 1
          /\ SubSeq(gaze_distances', 1, Len(gaze_distances)) = gaze_distances
    /\ face_detected_count' = face_detected_count =>
          gaze_distances' = gaze_distances

\* C20: run_phase appends exactly one gaze offset to gaze_distances for
\* every frame in which a face is detected and none for any other frame; at
\* every point of the phase
\* len(gaze_distances) = face_detected_count <= frame_count.
C20_GazePerFaceFrame == []C20_Counts /\ [][C20_Step]_vars

\* three frames, two of them with a face: two gaze offsets
C20_Witness ==
    /\ frame_count = 3
    /\ face_detected_count = 2
    /\ Len(gaze_distances) = 2

----------------------------------------------------------------------------
(* The validation at the end of run_phase, checked under Spec *)

\* C21: the validation at the end of run_phase is advisory: whatever
\* warnings it raises and whatever tracking_valid is, the returned
\* blink_count, eye_closed_time, gaze_distances, duration,
\* face_detection_rate and avg_ear are the values the frame loop has
\* accumulated, and the phase returns.
C21_ValidationAdvisory ==
    /\ pc = "end" => ENABLED PhaseReturn
    /\ pc = "done" =>
          /\ phase_summary.blink_count = blink_count
          /\ phase_summary.eye_closed_time = eye_closed_time
          /\ phase_summary.gaze_distances = gaze_distances
          /\ phase_summary.duration = duration_sec
          /\ IF frame_count > 0
             THEN IsQuotient(phase_summary.face_detection_rate,
                             face_detected_count * 100, frame_count)
             ELSE phase_summary.face_detection_rate.num = 0
          /\ IF ear_values # <<>>
             THEN IsQuotient(phase_summary.avg_ear, SumSeq(ear_values),
                             Len(ear_values))
             ELSE phase_summary.avg_ear.num = 0

\* a blink on two of five frames, the other three without a face: the
\* detection rate is 40 %, the tracking is not valid, a warning is raised,
\* and the blink and the closed time are in the summary
C21_Witness ==
    /\ pc = "done"
    /\ frame_count = 5
    /\ face_detected_count = 2
    /\ ~phase_summary.tracking_valid
    /\ phase_summary.validation_warnings = <<"low_face_detection">>
    /\ phase_summary.blink_count = 1
    /\ phase_summary.eye_closed_time > 0

\* C22: for every run of run_phase, whatever the frame arrival times, the
\* face detections and the openness values, the returned eye_closed_time is
\* non-negative and does not exceed the duration of the phase.
C22_ClosedTimeWithinDuration ==
    pc = "done" =>
        /\ phase_summary.eye_closed_time >= 0
        /\ phase_summary.eye_closed_time <= phase_summary.duration

----------------------------------------------------------------------------
(* The closed-eye time of run_phase, checked under Spec *)

\* the step processes a frame with a face whose sample is below the threshold
C23_BelowSample ==
    /\ Len(ear_values') = Len(ear_values) + 1
    /\ RatLt(Rat(ear_values'[Len(ear_values')], 1), current_threshold')

C23_Step ==
    /\ IF C23_BelowSample /\ is_eye_closed'
       THEN eye_closed_time' = eye_closed_time + (now' - now)
       ELSE eye_closed_time' = eye_closed_time
    /\ (C23_BelowSample /\ ~is_eye_closed /\ ear_below_threshold_count = 0) =>
          eye_closed_time' = eye_closed_time
    /\ (C23_BelowSample /\ ~is_eye_closed /\ is_eye_closed') =>
          eye_closed_time' = eye_closed_time + (now' - now)

\* C23: in run_phase eye_closed_time grows by the wall-clock duration of the
\* frame on exactly the frames with a face that are below the threshold and
\* end with the eye closed, the frame of the transition included; on every
\* other frame (the first below-threshold frame of a blink, a frame at or
\* above the threshold, a frame without a face) it is unchanged.
C23_ClosedTimeAccrual == [][C23_Step]_vars

\* three frames below the threshold stamped at 1, 2 and 5: the first adds
\* nothing, the transition frame 1 and the third 3
C23_Witness ==
    /\ ear_values = <<220, 220, 220>>
    /\ frame_count = 3
    /\ now = 5
    /\ is_eye_closed
    /\ eye_closed_time = 4

----------------------------------------------------------------------------
(* SpecWarm: run_phase taken up after its first frames.  The first n frames *)
(* came one tick apart, each with a face and all with the same openness:    *)
(* 0.40 (the eye stayed open) or 0.22 (it closed on the second frame and    *)
(* stayed closed, the threshold being the default up to the tenth sample).  *)
(* The phase has TailTicks left.                                            *)

\* the time left of the phase, in ticks
TailTicks == 4

\* how many frames have been processed: fewer than the 11 samples of the
\* adaptive threshold, and one fewer than its window of 30
WarmFrames == {8, 29}

\* the locals after n frames of the sample v
WarmState(n, v, closed) ==
    /\ now = n
    /\ start_time = 0
    /\ last_ear_time = n
    /\ frame_count = n
    /\ face_detected_count = n
    /\ ear_values = Repeat(v, n)
    /\ gaze_distances = Repeat(20, n)
    /\ current_threshold = get_adaptive_threshold(Repeat(v, n))
    /\ blink_count = IF closed THEN 1 ELSE 0
    /\ is_eye_closed = closed
    /\ ear_below_threshold_count = IF closed THEN n ELSE 0
    /\ eye_closed_time = IF closed THEN n - 1 ELSE 0
    /\ phase_summary = NoValue

InitWarm ==
    /\ EyeIdle
    /\ RunnerIdle
    /\ main_pc = "-"
    /\ pc = "loop"
    /\ PursuitIdle
    /\ MainIdle
    /\ \E n \in WarmFrames :
          /\ duration_sec = n + TailTicks
          /\ \/ WarmState(n, 400, FALSE)
             \/ n <= MinSamples /\ WarmState(n, 220, TRUE)

NextWarm ==
    \/ PhaseFrameFace
    \/ PhaseFrameNoFace
    \/ PhaseReadFails
    \/ PhaseTimeUp
    \/ PhaseReturn

SpecWarm == InitWarm /\ [][NextWarm]_vars

----------------------------------------------------------------------------
(* The threshold run_phase applies, checked under SpecWarm *)

\* max(0.20, 0.70 * mean of the last 30 samples) from the 11th sample on,
\* 0.25 before (in thousandths)
C24_Stated(values) ==
    LET n == Len(values)
        first == IF n > 30 THEN n - 29 ELSE 1
        window == SubSeq(values, first, n)
        scaled == Rat(7 * SumSeq(window), 10 * Len(window))
    IN  IF n >= 11
        THEN (IF scaled.num < 200 * scaled.den THEN Rat(200, 1) ELSE scaled)
        ELSE Rat(250, 1)

C24_Step ==
    IF Len(ear_values') = Len(ear_values) + 1
    THEN LET sample == ear_values'[Len(ear_values')]
             stated == C24_Stated(ear_values')
         IN  /\ face_detected_count' = face_detected_count + 1
             /\ RatEq(current_threshold', stated)
             /\ ear_below_threshold_count' > 0
                   <=> sample * stated.den < stated.num
    ELSE /\ ear_values' = ear_values
         /\ current_threshold' = current_threshold
         /\ face_detected_count' = face_detected_count

\* C24: the threshold run_phase applies to a frame with a face is
\* max(0.20, 0.70 * mean of the last 30 openness samples) once at least 11
\* samples have been observed and 0.25 before; the samples are those of
\* frames with a face only, and the sample of the frame itself is already in
\* the count and in the window when the frame is classified.
C24_AppliedThreshold ==
    /\ [](Len(ear_values) = face_detected_count)
    /\ [][C24_Step]_vars

\* the 31st sample: thirty samples of 0.40 and then one of 0.22; the window
\* has dropped the first sample, the threshold is 0.7 * 11.82 / 30 = 0.2758
\* and the sample is below it
C24_Witness ==
    /\ ear_values = Append(Repeat(400, 30), 220)
    /\ face_detected_count = 31
    /\ RatEq(current_threshold, Rat(82740, 300))
    /\ ear_below_threshold_count = 1

----------------------------------------------------------------------------
(* tracking/blink.py calculate_ear, tracking/gaze.py get_eye_center and     *)
(* calculate_gaze_distance.  A landmark is a pair <<x, y>> of pixels; a     *)
(* Euclidean norm is an integer number of thousandths of a pixel, rounded   *)
(* down.                                                                    *)

\* the largest r in lo..hi with r * r <= x, where lo * lo <= x
RECURSIVE SqrtBetween(_, _, _)
SqrtBetween(lo, hi, x) ==
    IF lo = hi
    THEN lo
    ELSE LET mid == (lo + hi + 1) \div 2
         IN  IF mid * mid <= x
             THEN SqrtBetween(mid, hi, x)
             ELSE SqrtBetween(lo, mid - 1, x)

SquaredDistance(p, q) ==
    (p[1] - q[1]) * (p[1] - q[1]) + (p[2] - q[2]) * (p[2] - q[2])

\* np.linalg.norm(p - q), in thousandths
Norm(p, q) == SqrtBetween(0, 1000 * (SquaredDistance(p, q) + 1),
                          1000000 * SquaredDistance(p, q))

\* calculate_ear without the test of the horizontal distance
calculate_ear_NoWidthGuard(landmarks) ==
    IF Len(landmarks) < 6
    THEN Rat(3, 10)
    ELSE LET v1 == Norm(landmarks[2], landmarks[6])
             v2 == Norm(landmarks[3], landmarks[5])
             h == Norm(landmarks[1], landmarks[4])
         IN  IF h = 0 THEN DivError ELSE Rat(v1 + v2, 2 * h)

\* calculate_ear (points[i] of the program is landmarks[i + 1]); the result
\* is the quotient itself, 0.3 being 3 / 10
calculate_ear(landmarks) ==
    IF Len(landmarks) < 6
    THEN Rat(3, 10)
    ELSE LET v1 == Norm(landmarks[2], landmarks[6])
             v2 == Norm(landmarks[3], landmarks[5])
             h == Norm(landmarks[1], landmarks[4])
         IN  IF h = 0 THEN Rat(0, 1) ELSE Rat(v1 + v2, 2 * h)

RECURSIVE SumCoordinate(_, _)
SumCoordinate(landmarks, i) ==
    IF landmarks = <<>>
    THEN 0
    ELSE Head(landmarks)[i] + SumCoordinate(Tail(landmarks), i)

\* get_eye_center: None, or np.mean(eye_landmarks, axis=0) as a pair of
\* quotients
get_eye_center(landmarks) ==
    IF Len(landmarks) = 0
    THEN NoValue
    ELSE [x |-> Rat(SumCoordinate(landmarks, 1), Len(landmarks)),
          y |-> Rat(SumCoordinate(landmarks, 2), Len(landmarks))]

\* calculate_gaze_distance: 0.0 for None, else the norm of the difference,
\* sqrt(sq) / den
calculate_gaze_distance(center, image_center) ==
    IF center = NoValue
    THEN 0
    ELSE LET dx == center.x.num - center.x.den * image_center[1]
             dy == center.y.num - center.y.den * image_center[2]
         IN  Std(dx * dx + dy * dy, center.x.den)

----------------------------------------------------------------------------
(* SpecEye: the three functions called in turn on a drawn landmark list *)

\* the landmarks a list is drawn from
EyePoints == { <<0, 0>>, <<3, 0>>, <<0, 4>>, <<1, 1>> }

\* the lengths of the drawn lists: none, one fewer than the six of the ratio,
\* the six, and more
EyeLengths == {0, 5, 6, 7}

\* image_center = np.array([w / 2, h / 2])
ImageCenter == <<2, 2>>

InitEye ==
    /\ main_pc = "tracking"
    /\ pc = "calculate_ear"
    /\ now = 0
    /\ duration_sec = 0
    /\ ear_values = <<>>
    /\ current_threshold = Rat(EAR_BASE_THRESHOLD, 1)
    /\ PhaseIdle
    /\ PursuitIdle
    /\ MainIdle
    /\ RunnerIdle
    /\ \E n \in EyeLengths : eye_landmarks \in [1..n -> EyePoints]
    /\ ear = NoValue
    /\ eye_center = NoValue
    /\ gaze_dist = NoValue

CallEar ==
    /\ pc = "calculate_ear"
    /\ ear' = calculate_ear(eye_landmarks)
    /\ pc' = "get_eye_center"
    /\ UNCHANGED <<main_pc, now, duration_sec, phase_vars, pursuit_vars,
                   main_vars, eye_landmarks, eye_center, gaze_dist,
                   runner_vars>>

CallEyeCenter ==
    /\ pc = "get_eye_center"
    /\ eye_center' = get_eye_center(eye_landmarks)
    /\ pc' = "calculate_gaze_distance"
    /\ UNCHANGED <<main_pc, now, duration_sec, phase_vars, pursuit_vars,
                   main_vars, eye_landmarks, ear, gaze_dist, runner_vars>>

CallGazeDistance ==
    /\ pc = "calculate_gaze_distance"
    /\ gaze_dist' = calculate_gaze_distance(eye_center, ImageCenter)
    /\ pc' = "done"
    /\ UNCHANGED <<main_pc, now, duration_sec, phase_vars, pursuit_vars,
                   main_vars, eye_landmarks, ear, eye_center, runner_vars>>

NextEye ==
    \/ CallEar
    \/ CallEyeCenter
    \/ CallGazeDistance

SpecEye == InitEye /\ [][NextEye]_vars

----------------------------------------------------------------------------
(* The degenerate inputs of the tracking functions, checked under SpecEye *)

\* v is the distance of p and q in thousandths, rounded down
C25_IsDistance(v, p, q) ==
    /\ v >= 0
    /\ v * v <= 1000000 * SquaredDistance(p, q)
    /\ (v + 1) * (v + 1) > 1000000 * SquaredDistance(p, q)

\* r is (dist(p1,p5) + dist(p2,p4)) / (2 * dist(p0,p3))
C25_IsRatio(r, p) ==
    \E v1 \in {Norm(p[2], p[6])}, v2 \in {Norm(p[3], p[5])},
       h \in {Norm(p[1], p[4])} :
        /\ C25_IsDistance(v1, p[2], p[6])
        /\ C25_IsDistance(v2, p[3], p[5])
        /\ C25_IsDistance(h, p[1], p[4])
        /\ r.den # 0
        /\ r.num * 2 * h = (v1 + v2) * r.den

\* C25: calculate_ear raises on no input: for fewer than 6 points it returns
\* 0.3, for a zero horizontal width 0, and otherwise
\* (dist(p1,p5) + dist(p2,p4)) / (2 * dist(p0,p3)); get_eye_center returns
\* None for an empty list and calculate_gaze_distance returns 0 for a None
\* centre.
C25_DegenerateInputs ==
    /\ pc # "calculate_ear" =>
          /\ ear # DivError
          /\ Len(eye_landmarks) < 6 => ear = Rat(3, 10)
          /\ Len(eye_landmarks) >= 6 /\ eye_landmarks[1] = eye_landmarks[4]
                => ear = Rat(0, 1)
          /\ Len(eye_landmarks) >= 6 /\ eye_landmarks[1] # eye_landmarks[4]
                => C25_IsRatio(ear, eye_landmarks)
    /\ pc \in {"calculate_gaze_distance", "done"} =>
          (eye_center = NoValue <=> eye_landmarks = <<>>)
    /\ pc = "done" /\ eye_center = NoValue => gaze_dist = 0

\* six points with p0 = p3 and the other four apart: the ratio is 0
C25_Witness ==
    /\ pc = "done"
    /\ eye_landmarks = << <<3, 0>>, <<0, 0>>, <<1, 1>>, <<3, 0>>, <<0, 4>>,
                          <<0, 4>> >>
    /\ ear = Rat(0, 1)
    /\ eye_center # NoValue

----------------------------------------------------------------------------
(* The two states of the blink machine, checked under Spec *)

\* closed means a run of at least 2; open means a run below 2
C26_States ==
    IF is_eye_closed
    THEN ear_below_threshold_count >= EAR_CONSECUTIVE_FRAMES
    ELSE ear_below_threshold_count < EAR_CONSECUTIVE_FRAMES

\* a step counts a blink exactly when it takes the eye from open to closed
C26_Step ==
    blink_count' = IF ~is_eye_closed /\ is_eye_closed'
                   THEN blink_count + 1
                   ELSE blink_count

\* C26: at every frame boundary of run_phase a closed eye has a
\* below-threshold run of at least 2 and an open eye a run below 2;
\* blink_count starts at 0 with the eye open, never decreases, and grows by
\* one on exactly the steps that take the eye from open to closed.
C26_BlinkMachine ==
    /\ blink_count = 0 /\ ~is_eye_closed
    /\ []C26_States
    /\ [][C26_Step]_vars

\* two blinks: closed, reopened, closed again and kept closed for a frame
C26_Witness ==
    /\ blink_count = 2
    /\ is_eye_closed
    /\ ear_below_threshold_count = 3
    /\ ear_values = <<220, 220, 400, 220, 220, 220>>

----------------------------------------------------------------------------
(* A frame without a face, checked under Spec *)

\* a pass of the loop body that found no face
C27_NoFaceFrame ==
    /\ frame_count' = frame_count + 1
    /\ face_detected_count' = face_detected_count

C27_Step ==
    C27_NoFaceFrame =>
        /\ last_ear_time' = now'
        /\ UNCHANGED <<blink_count, eye_closed_time, is_eye_closed,
                       ear_below_threshold_count, ear_values,
                       gaze_distances, current_threshold, start_time>>

\* C27: a frame of run_phase without a face changes frame_count and the
\* stamp of the last frame only; blink_count, eye_closed_time, the
\* open/closed state, the below-threshold run counter, the openness history
\* and gaze_distances are unchanged, so a run below the threshold is carried
\* across such frames.
C27_NoFaceFrameQuiet == [][C27_Step]_vars

\* three frames, two of them with a face and below the threshold: the run of
\* two is complete and the blink is counted wherever the third frame fell
C27_Witness ==
    /\ frame_count = 3
    /\ face_detected_count = 2
    /\ ear_values = <<220, 220>>
    /\ ear_below_threshold_count = 2
    /\ blink_count = 1
    /\ is_eye_closed

----------------------------------------------------------------------------
(* The range of the risk score, checked under SpecRisk *)

\* C28: the risk_score assess_concussion_risk returns is an integer from 0
\* to 12, and at most 9 when no pursuit summary is passed; no input gives
\* more than 12 although nothing caps the score.
C28_ScoreRange ==
    pc = "done" =>
        /\ risk_assessment.risk_score \in 0..12
        /\ pursuit_metrics = NoValue => risk_assessment.risk_score <= 9

\* every rule at its highest: 2 + 2 + 2 + (2 + 1) + 3
C28_Witness ==
    /\ pc = "done"
    /\ pursuit_metrics # NoValue
    /\ risk_assessment.risk_score = 12
    /\ SymptomCount(symptoms) = 4

----------------------------------------------------------------------------
(* The validity flag of a phase, checked under Spec *)

\* face_detected_count / frame_count * 100 < 50, the rate of no frames
\* being 0.0
C29_LowRate == frame_count = 0 \/ face_detected_count * 100 < 50 * frame_count

C29_Warned(tag) ==
    \E i \in 1..Len(phase_summary.validation_warnings) :
        phase_summary.validation_warnings[i] = tag

\* C29: when run_phase returns, tracking_valid is false exactly when
\* face_detection_rate < 50%: the check for an empty openness history never
\* fails a phase whose rate is 50% or more, and the warning for gaze samples
\* below 30% of the frame count is raised only together with the
\* low-detection warning.
C29_ValidityIsDetectionRate ==
    phase_summary # NoValue =>
        /\ phase_summary.tracking_valid <=> ~C29_LowRate
        /\ C29_Warned("low_face_detection") <=> C29_LowRate
        /\ ear_values = <<>> => C29_LowRate
        /\ C29_Warned("no_ear_values") => C29_Warned("low_face_detection")
        /\ C29_Warned("sparse_gaze") => C29_Warned("low_face_detection")

\* one frame with a face out of four: 25% detection, one gaze sample
C29_Witness ==
    /\ phase_summary # NoValue
    /\ frame_count = 4
    /\ face_detected_count = 1
    /\ ~phase_summary.tracking_valid
    /\ phase_summary.validation_warnings
          = <<"low_face_detection", "sparse_gaze">>

----------------------------------------------------------------------------
(* agents/root_agent.py RootAgent.process_message and _check_tool_calls,    *)
(* agents/runner.py start_conversation and handle_message.  A message is    *)
(* the tuple of its characters, so that "keyword in message" is the search  *)
(* for a substring that it is in the program.                               *)

UpperCase == <<"A", "B", "C", "D", "E", "F", "G", "H", "I", "J", "K", "L",
               "M", "N", "O", "P", "Q", "R", "S", "T", "U", "V", "W", "X",
               "Y", "Z">>

LowerCase == <<"a", "b", "c", "d", "e", "f", "g", "h", "i", "j", "k", "l",
               "m", "n", "o", "p", "q", "r", "s", "t", "u", "v", "w", "x",
               "y", "z">>

\* str.lower()
Lower(message) ==
    [ i \in 1..Len(message) |->
        IF \E k \in 1..Len(UpperCase) : UpperCase[k] = message[i]
        THEN LowerCase[CHOOSE k \in 1..Len(UpperCase) :
                           UpperCase[k] = message[i]]
        ELSE message[i] ]

\* str.strip(), the blank being the only whitespace of the messages
RECURSIVE Strip(_)
Strip(message) ==
    IF message = <<>> THEN message
    ELSE IF Head(message) = " " THEN Strip(Tail(message))
    ELSE IF message[Len(message)] = " "
    THEN Strip(SubSeq(message, 1, Len(message) - 1))
    ELSE message

\* "word in message" of two strings
Contains(word, message) ==
    \E i \in 1..(Len(message) - Len(word) + 1) :
        SubSeq(message, i, i + Len(word) - 1) = word

\* any(word in message for word in words)
AnyIn(words, message) == \E word \in words : Contains(word, message)

\* root_agent.py: exit_keywords
ExitKeywords ==
    { <<"s", "t", "o", "p">>,
      <<"e", "x", "i", "t">>,
      <<"q", "u", "i", "t">>,
      <<"e", "n", "d", " ", "s", "e", "s", "s", "i", "o", "n">>,
      <<"e", "n", "d">>,
      <<"d", "o", "n", "e">> }

\* root_agent.py: email_keywords
EmailKeywords ==
    { <<"e", "m", "a", "i", "l">>,
      <<"m", "c", "k", "i", "n", "l", "e", "y">>,
      <<"r", "e", "f", "e", "r", "r", "a", "l">>,
      <<"d", "r", "a", "f", "t">>,
      <<"s", "e", "n", "d">> }

\* root_agent.py: draft_keywords
DraftKeywords ==
    { <<"d", "r", "a", "f", "t">>,
      <<"c", "r", "e", "a", "t", "e">>,
      <<"w", "r", "i", "t", "e">>,
      <<"m", "a", "k", "e">>,
      <<"g", "e", "n", "e", "r", "a", "t", "e">> }

\* root_agent.py: the words of "affirmative"
Affirmatives ==
    { <<"y", "e", "s">>,
      <<"s", "u", "r", "e">>,
      <<"o", "k">>,
      <<"p", "l", "e", "a", "s", "e">>,
      <<"y", "e", "a", "h">>,
      <<"y", "e", "p">> }

\* runner.py: the words that confirm the send
SendWords ==
    { <<"y", "e", "s">>,
      <<"s", "e", "n", "d">>,
      <<"s", "e", "n", "d", " ", "i", "t">>,
      <<"g", "o", " ", "a", "h", "e", "a", "d">>,
      <<"p", "l", "e", "a", "s", "e", " ", "s", "e", "n", "d">>,
      <<"s", "e", "n", "d", " ", "n", "o", "w">> }

\* runner.py: the words that cancel the draft
CancelWords ==
    { <<"n", "o">>,
      <<"c", "a", "n", "c", "e", "l">>,
      <<"d", "o", "n", "'", "t", " ", "s", "e", "n", "d">>,
      <<"s", "k", "i", "p">>,
      <<"n", "o", "t", " ", "n", "o", "w">> }

\* the condition under which _check_tool_calls drafts the email
WantsDraftTool(message_lower) ==
    LET wants_email == AnyIn(EmailKeywords, message_lower)
        wants_draft == AnyIn(DraftKeywords, message_lower)
        affirmative == AnyIn(Affirmatives, message_lower)
    IN  \/ wants_email /\ (wants_draft \/ affirmative)
        \/ wants_draft /\ (\/ Contains(<<"m", "e">>, message_lower)
                           \/ Contains(<<"e", "m", "a", "i", "l">>, message_lower))

\* what draft_email_for_mckinley returns
EmailDraft ==
    [ subject |-> "Request for Evaluation - Concussion Screening Results",
      body |-> "body",
      status |-> "ready" ]

\* _check_tool_calls: the dict with the draft, the dict of the error when
\* the tool raises, or None
check_tool_calls(message, tool_ok) ==
    IF WantsDraftTool(Lower(message))
    THEN IF tool_ok
         THEN [ response |-> "draft_ready", should_end |-> FALSE,
                tool_called |-> "draft_email", email_draft |-> EmailDraft ]
         ELSE [ response |-> "draft_error", should_end |-> FALSE,
                tool_called |-> "None" ]
    ELSE NoValue

\* process_message: the dict it returns
process_message(message, tool_ok, agent_ok) ==
    IF Strip(Lower(message)) \in ExitKeywords
    THEN [ response |-> "goodbye", should_end |-> TRUE,
           tool_called |-> "None" ]
    ELSE IF check_tool_calls(message, tool_ok) # NoValue
    THEN check_tool_calls(message, tool_ok)
    ELSE IF agent_ok
    THEN [ response |-> "agent_reply", should_end |-> FALSE,
           tool_called |-> "None" ]
    ELSE [ response |-> "agent_error", should_end |-> FALSE,
           tool_called |-> "None" ]

\* process_message: the conversation history it leaves, the last 20 entries
\* of it
HistoryAfter(history, message, agent_ok) ==
    IF /\ Strip(Lower(message)) \notin ExitKeywords
       /\ ~WantsDraftTool(Lower(message))
       /\ agent_ok
    THEN LastN(history \o << [role |-> "user", content |-> message],
                             [role |-> "assistant",
                              content |-> "agent_reply"] >>, 20)
    ELSE history

\* result.get("email_draft")
HasDraft(r) == "email_draft" \in DOMAIN r

\* d with the key k set to v
SetKey(d, k, v) == [ x \in DOMAIN d \cup {k} |-> IF x = k THEN v ELSE d[x] ]

----------------------------------------------------------------------------
(* SpecRunner: the web runner, from start_conversation on *)

\* the number of messages the user posts
MaxMessages == 3

\* the messages the user may post
Messages ==
    { <<"d", "r", "a", "f", "t", " ", "a", "n", " ", "e", "m", "a", "i", "l">>,
      <<"y", "e", "s">>,
      <<"Y", "e", "s", ",", " ", "p", "l", "e", "a", "s", "e", " ", "s", "e", "n", "d", " ", "i", "t">>,
      <<"s", "e", "n", "d", " ", "i", "t">>,
      <<"n", "o", " ", "t", "h", "a", "n", "k", "s">>,
      <<"w", "h", "a", "t", " ", "d", "o", " ", "m", "y", " ", "r", "e", "s", "u", "l", "t", "s", " ", "m", "e", "a", "n">>,
      <<" ", "s", "t", "o", "p", " ">> }

InitRunner ==
    /\ main_pc = "runner"
    /\ pc = "serve"
    /\ now = 0
    /\ duration_sec = 0
    /\ ear_values = <<>>
    /\ current_threshold = Rat(EAR_BASE_THRESHOLD, 1)
    /\ PhaseIdle
    /\ PursuitIdle
    /\ MainIdle
    /\ EyeIdle
    /\ RunnerIdle

\* start_conversation: with a risk assessment passed the agent is created;
\* without one the call of assess_concussion_risk with four arguments
\* raises TypeError and root_agent stays None
StartConversation ==
    /\ pc = "serve"
    /\ root_agent = NoValue
    /\ \E risk_given \in BOOLEAN :
          root_agent' = IF risk_given
                        THEN [conversation_history |-> <<>>]
                        ELSE root_agent
    /\ UNCHANGED <<main_pc, pc, now, duration_sec, phase_vars, pursuit_vars,
                   main_vars, eye_vars, current_email_draft, user_message,
                   result, outbox>>

\* handle_message without an agent
HandleMessageNoAgent ==
    /\ pc = "serve"
    /\ now < MaxMessages
    /\ root_agent = NoValue
    /\ now' = now + 1
    /\ result' = [response |-> "not_initialized", should_end |-> TRUE]
    /\ UNCHANGED <<main_pc, pc, duration_sec, phase_vars, pursuit_vars,
                   main_vars, eye_vars, root_agent, current_email_draft,
                   user_message, outbox>>

\* handle_message on one posted message; tool_ok, agent_ok and sent_ok are
\* the outcomes of draft_email_for_mckinley, call_agent and send_email_oauth
HandleMessage ==
    /\ pc = "serve"
    /\ now < MaxMessages
    /\ root_agent # NoValue
    /\ \E message \in Messages, tool_ok, agent_ok, sent_ok \in BOOLEAN :
          LET processed == process_message(message, tool_ok, agent_ok)
              message_lower == Lower(message)
              stored == current_email_draft # NoValue
              confirms == stored /\ AnyIn(SendWords, message_lower)
              cancels == /\ stored
                         /\ ~AnyIn(SendWords, message_lower)
                         /\ AnyIn(CancelWords, message_lower)
              answered ==
                  IF confirms /\ sent_ok
                  THEN SetKey(SetKey(processed, "response", "email_sent"),
                              "should_end", FALSE)
                  ELSE IF confirms
                  THEN SetKey(processed, "response", "send_failed")
                  ELSE IF cancels
                  THEN SetKey(processed, "response", "cancelled")
                  ELSE processed
              draft_after ==
                  IF (confirms /\ sent_ok) \/ cancels
                  THEN NoValue
                  ELSE current_email_draft
          IN  /\ user_message' = message
              /\ root_agent' =
                     [conversation_history |->
                          HistoryAfter(root_agent.conversation_history,
                                       message, agent_ok)]
              /\ outbox' =
                     IF confirms /\ sent_ok
                     THEN Append(outbox,
                                 [recipient |-> "gvndbalakrishnan@gmail.com",
                                  subject |-> current_email_draft.subject,
                                  body |-> current_email_draft.body])
                     ELSE outbox
              /\ result' = answered
              /\ current_email_draft' =
                     IF HasDraft(answered) THEN answered.email_draft
                                           ELSE draft_after
    /\ now' = now + 1
    /\ UNCHANGED <<main_pc, pc, duration_sec, phase_vars, pursuit_vars,
                   main_vars, eye_vars>>

NextRunner ==
    \/ StartConversation
    \/ HandleMessageNoAgent
    \/ HandleMessage

SpecRunner == InitRunner /\ [][NextRunner]_vars

----------------------------------------------------------------------------
(* The sending of the drafted email, checked under SpecRunner *)

\* the step delivers an email
C30_Sends == Len(outbox') = Len(outbox) + 1

\* an email goes out only with a draft stored and on a confirming message
C30_OnlyOnConfirmation ==
    C30_Sends =>
        /\ current_email_draft # NoValue
        /\ AnyIn(SendWords, Lower(user_message'))

\* the handler that has sent the email leaves no draft stored
C30_ClearedAfterSend == C30_Sends => current_email_draft' = NoValue

\* C30: over any sequence of messages handle_message sends an email only
\* when a draft is stored and the message confirms the send, and after a
\* successful send the stored draft is cleared, so that a later confirming
\* message does not send the email again.
C30_SendOncePerDraft ==
    [][C30_OnlyOnConfirmation /\ C30_ClearedAfterSend]_vars

====
